---- MODULE Spec2Model ----
(***************************************************************************)
(* The offline-sync client of scoutradioz (voyager/src/lib): the local     *)
(* Dexie database declared in localDB.ts and the five download operations  *)
(* of DBOperations.ts.  A download is a process: it reads the page keys,   *)
(* awaits its fetch(es) and then runs one Dexie 'rw' transaction.          *)
(* With it, the Express middleware of the server and the notification     *)
(* cards of the pages (primary/public/js/NotificationCard.js).             *)
(***************************************************************************)
EXTENDS Integers, Sequences, FiniteSets, TLC

VARIABLES
    page,      \* $page.data: the event_key and org_key of the page
    db,        \* the tables of the LocalDB instance (table name -> set of rows)
    now,       \* the reading of the device clock (new Date())
    ops,       \* the download() calls that are awaiting a fetch or their transaction
    done,      \* the download() call that settled last: its keys, its outcome, the
               \* tables when it was called and, of a Team download, the fetched teams
    started,   \* number of download() calls made so far
    req,       \* the request the server middleware is handling
    res,       \* its response
    console,   \* the lines the middleware has logged
    ret,       \* what the last call of a function of req or res returned or threw
    cards,     \* the NotificationCard objects of the page, in order of construction
    document,  \* the notification card container of the page and what it holds
    timers,    \* the callbacks given to setTimeout that are still to run
    clock,     \* milliseconds since the page was loaded
    thrown     \* what the last call on a notification card threw, if it threw

\* The state of the sync client, of the server middleware and of the
\* notification cards of a page.
client == <<page, db, now, ops, done, started>>
server == <<req, res, console, ret>>
widget == <<cards, document, timers, clock, thrown>>

vars == <<page, db, now, ops, done, started, req, res, console, ret,
          cards, document, timers, clock, thrown>>

\* ---------------------------------------------------------------- bounds

MaxTime == 2
MaxOps == 2

\* ---------------------------------------------------------------- values

\* Event keys are character strings; the model keeps the characters apart
\* because FormLayoutOperations.download reads the first four of them.
EK1 == <<"2", "0", "2", "4", "a">>
EK2 == <<"2", "0", "2", "4", "b">>
EKbad == <<"a", "b", "c", "d", "e">>
EKfrac == <<".", "2", "0", "4", "a">>
NoKey == <<>>

Org1 == "demo"
Org2 == "other"
NoOrg == ""

TableNames == {"events", "teams", "lightmatches", "matchscouting", "layout", "syncstatus"}

\* ---------------------------------------------------------------- LocalDB

\* The key of the sync-status store: one row per (table, filter).
SyncStatusKey == {"table", "filter"}

\* The unique indexes of each store ('&' in the Dexie schema string); the first
\* index of a schema string is the primary key.
PrimaryKey ==
    [events |-> {"_id"}, teams |-> {"_id"}, lightmatches |-> {"key"},
     matchscouting |-> {"match_team_key"}, layout |-> {"_id"},
     syncstatus |-> SyncStatusKey]

UniqueIndexes ==
    [events |-> {{"_id"}, {"key"}}, teams |-> {{"_id"}, {"key"}},
     lightmatches |-> {{"key"}}, matchscouting |-> {{"match_team_key"}},
     layout |-> {{"_id"}}, syncstatus |-> {SyncStatusKey}]

SameOn(r1, r2, fields) == \A f \in fields : r1[f] = r2[f]

\* r cannot be stored next to s: they agree on a unique index.
Collides(t, r, s) == \E ix \in UniqueIndexes[t] : SameOn(r, s, ix)

\* A store content the schema allows.
ValidTable(t, rows) == \A r \in rows, s \in rows : Collides(t, r, s) => r = s

EmptyDB == [t \in TableNames |-> {}]

\* ---------------------------------------------------------------- Dexie transaction

\* The state of a running transaction body: the working copy of the tables,
\* the error that ended the body (if any) and the stores named in
\* db.transaction(mode, ...stores, body).
BeginTx(scope, d) == [db |-> d, err |-> "none", scope |-> scope]

\* Every table operation inside a transaction body: skipped once the body has
\* thrown; rejected when the store is not part of the transaction.
Access(tx, t, result) ==
    IF tx.err # "none" THEN tx
    ELSE IF t \notin tx.scope THEN [tx EXCEPT !.err = "NotFoundError"]
    ELSE result

\* table.where({f: v, ...}): the rows that equal the criteria on every field.
where(rows, crit) == {r \in rows : \A f \in DOMAIN crit : r[f] = crit[f]}

\* table.where(field).anyOf(values)
whereAnyOf(rows, field, values) == {r \in rows : r[field] \in values}

\* collection.delete()
delete(tx, t, victims) ==
    Access(tx, t, [tx EXCEPT !.db[t] = @ \ victims])

\* table.add(row): ConstraintError when a unique index already holds the key.
add(tx, t, row) ==
    Access(tx, t,
        IF \E s \in tx.db[t] : Collides(t, row, s)
        THEN [tx EXCEPT !.err = "ConstraintError"]
        ELSE [tx EXCEPT !.db[t] = @ \cup {row}])

\* The rows bulkAdd has stored after trying every row of the list in order:
\* a colliding row is skipped, the others are stored.
RECURSIVE addEach(_, _, _)
addEach(t, rows, list) ==
    IF list = <<>> THEN rows
    ELSE IF \E s \in rows : Collides(t, Head(list), s)
         THEN addEach(t, rows, Tail(list))
         ELSE addEach(t, rows \cup {Head(list)}, Tail(list))

RECURSIVE anyCollision(_, _, _)
anyCollision(t, rows, list) ==
    IF list = <<>> THEN FALSE
    ELSE IF \E s \in rows : Collides(t, Head(list), s)
         THEN TRUE
         ELSE anyCollision(t, rows \cup {Head(list)}, Tail(list))

\* table.bulkAdd(list): rejects with a BulkError when any row collides.
bulkAdd(tx, t, list) ==
    Access(tx, t,
        [tx EXCEPT !.db[t] = addEach(t, @, list),
                   !.err = IF anyCollision(t, tx.db[t], list)
                           THEN "ConstraintError" ELSE "none"])

\* table.put(row): the row replaces the stored row with its primary key, whole;
\* ConstraintError when another row holds one of its unique keys.
put(tx, t, row) ==
    Access(tx, t,
        LET others == {s \in tx.db[t] : ~SameOn(row, s, PrimaryKey[t])}
        IN  IF \E s \in others : Collides(t, row, s)
            THEN [tx EXCEPT !.err = "ConstraintError"]
            ELSE [tx EXCEPT !.db[t] = others \cup {row}])

RECURSIVE bulkPut(_, _, _)
bulkPut(tx, t, list) ==
    IF list = <<>> THEN Access(tx, t, tx)
    ELSE LET one == put(tx, t, Head(list))
         IN  IF one.err = "ConstraintError"
             THEN [bulkPut([one EXCEPT !.err = "none"], t, Tail(list))
                      EXCEPT !.err = "ConstraintError"]
             ELSE bulkPut(one, t, Tail(list))

\* transaction without the rollback: what the body wrote before it threw stays.
transaction_partial(d, tx) == [db |-> tx.db, err |-> tx.err]

\* db.transaction('rw', stores, body): the writes of the body commit together
\* when the body returns, and none of them when it throws.
transaction(d, tx) ==
    IF tx.err = "none" THEN [db |-> tx.db, err |-> "none"]
    ELSE [db |-> d, err |-> tx.err]

\* ---------------------------------------------------------------- Number(string)

\* A JavaScript number: NaN, or (-1)^neg * m * 10^e with m not a multiple of
\* ten (m = 0 has e = 0 and neg = FALSE).
NaN == [kind |-> "NaN", neg |-> FALSE, m |-> 0, e |-> 0]

RECURSIVE Normal(_, _, _)
Normal(neg, m, e) ==
    IF m = 0 THEN [kind |-> "finite", neg |-> FALSE, m |-> 0, e |-> 0]
    ELSE IF m % 10 = 0 THEN Normal(neg, m \div 10, e + 1)
    ELSE [kind |-> "finite", neg |-> neg, m |-> m, e |-> e]

WhiteSpace == {" "}

DigitValue ==
    [c \in {"0", "1", "2", "3", "4", "5", "6", "7", "8", "9"} |->
        CASE c = "0" -> 0 [] c = "1" -> 1 [] c = "2" -> 2 [] c = "3" -> 3
          [] c = "4" -> 4 [] c = "5" -> 5 [] c = "6" -> 6 [] c = "7" -> 7
          [] c = "8" -> 8 [] c = "9" -> 9]

IsDigits(s) == \A i \in 1..Len(s) : s[i] \in DOMAIN DigitValue

RECURSIVE DigitsToInt(_)
DigitsToInt(s) ==
    IF s = <<>> THEN 0
    ELSE 10 * DigitsToInt(SubSeq(s, 1, Len(s) - 1)) + DigitValue[s[Len(s)]]

\* The string without its leading and trailing white space.
RECURSIVE trim(_)
trim(s) ==
    IF s = <<>> THEN s
    ELSE IF Head(s) \in WhiteSpace THEN trim(Tail(s))
    ELSE IF s[Len(s)] \in WhiteSpace THEN trim(SubSeq(s, 1, Len(s) - 1))
    ELSE s

\* The position of the first character of s that is in chars (0: none).
FirstOf(s, chars) ==
    IF \E i \in 1..Len(s) : s[i] \in chars
    THEN CHOOSE i \in 1..Len(s) :
            s[i] \in chars /\ \A j \in 1..(i - 1) : s[j] \notin chars
    ELSE 0

\* An unsigned StrDecimalLiteral: digits [. digits] [e [sign] digits], with a
\* digit before or after the point.
UnsignedDecimal(neg, s) ==
    LET ePos  == FirstOf(s, {"e", "E"})
        mant  == IF ePos = 0 THEN s ELSE SubSeq(s, 1, ePos - 1)
        expo  == IF ePos = 0 THEN <<>> ELSE SubSeq(s, ePos + 1, Len(s))
        eNeg  == expo # <<>> /\ Head(expo) = "-"
        eDig  == IF expo # <<>> /\ Head(expo) \in {"+", "-"} THEN Tail(expo) ELSE expo
        pPos  == FirstOf(mant, {"."})
        int   == IF pPos = 0 THEN mant ELSE SubSeq(mant, 1, pPos - 1)
        frac  == IF pPos = 0 THEN <<>> ELSE SubSeq(mant, pPos + 1, Len(mant))
        expOk == ePos = 0 \/ (eDig # <<>> /\ IsDigits(eDig))
        manOk == IsDigits(int) /\ IsDigits(frac) /\ Len(int) + Len(frac) > 0
        eVal  == IF eNeg THEN 0 - DigitsToInt(eDig) ELSE DigitsToInt(eDig)
    IN  IF expOk /\ manOk
        THEN Normal(neg, DigitsToInt(int \o frac), eVal - Len(frac))
        ELSE NaN

\* Number(s) for a string s (StringToNumber): white space is trimmed, the
\* empty string is 0, a signed decimal literal has its value, anything else is
\* NaN.  (Infinity and the 0x/0o/0b literals need characters that
\* KeyAlphabet does not have.)
Number(s) ==
    LET t == trim(s)
    IN  IF t = <<>> THEN Normal(FALSE, 0, 0)
        ELSE IF Head(t) \in {"+", "-"} THEN UnsignedDecimal(Head(t) = "-", Tail(t))
        ELSE UnsignedDecimal(FALSE, t)

\* isNaN that also rejects a number with a fraction.
isNaN_orFraction(v) == v.kind = "NaN" \/ v.e < 0

isNaN(v) == v.kind = "NaN"

\* The value is a whole number.
IsInteger(v) == v.kind = "finite" /\ v.e >= 0

\* s.substring(0, n)
substring(s, n) == SubSeq(s, 1, IF Len(s) < n THEN Len(s) ELSE n)

\* The characters of the event keys the model draws.
KeyAlphabet == {"2", "0", "4", "a", ".", "e", "-", " "}

\* ---------------------------------------------------------------- download processes

\* getKeys that checks the event key alone.
getKeys_eventOnly(event_key, org_key) == event_key # NoKey

\* getKeys(): both keys must be truthy.
getKeys(event_key, org_key) == event_key # NoKey /\ org_key # NoOrg

\* The number of leading characters of the event key that make the year.
YearChars == 4

\* FormLayoutOperations.download: const year = Number(event_key.substring(0, 4))
yearOf(event_key) == Number(substring(event_key, YearChars))

\* What a download() call does before its first await: getKeys() throws, the
\* year assertion of FormLayoutOperations.download throws, or a fetch is issued.
BeforeFetch(kind, event_key, org_key) ==
    IF ~getKeys(event_key, org_key) THEN "KeysNotSet"
    ELSE IF kind = "FormLayout" /\ isNaN(yearOf(event_key)) THEN "AssertionError"
    ELSE "none"

Page(event_key, org_key) == [event_key |-> event_key, org_key |-> org_key]

\* What $page.data can hold when download() is called.
PageKeys ==
    {Page(EK1, Org1), Page(EK2, Org1), Page(EKbad, Org1), Page(EKfrac, Org1),
     Page(NoKey, Org1), Page(EK1, NoOrg)}

NoOp ==
    [id |-> 0, kind |-> "none", event_key |-> NoKey, org_key |-> NoOrg, err |-> "none",
     fetches |-> 0, pre |-> EmptyDB, teams |-> <<>>, got |-> <<>>]

\* download() has been called, while other calls may be awaiting: it throws
\* before any fetch or issues its first fetch.
Start(kind) ==
    /\ started < MaxOps
    /\ started' = started + 1
    /\ IF BeforeFetch(kind, page.event_key, page.org_key) = "none"
       THEN /\ ops' = ops \cup
                      {[id |-> started, kind |-> kind, event_key |-> page.event_key,
                        org_key |-> page.org_key, pc |-> "fetch",
                        got |-> <<>>, got2 |-> <<>>, pre |-> db, fetches |-> 1]}
            /\ UNCHANGED done
       ELSE /\ done' = [NoOp EXCEPT !.id = started,
                                    !.kind = kind, !.event_key = page.event_key,
                                    !.org_key = page.org_key,
                                    !.err = BeforeFetch(kind, page.event_key, page.org_key),
                                    !.pre = db]
            /\ UNCHANGED ops
    /\ UNCHANGED <<widget, server, page, db, now>>

\* download() called by a caller that awaits each download before the next.
Call(kind) == ops = {} /\ Start(kind)

\* A later download() call was made while this one was awaiting.
Overlapped(op) == op.id + 1 < started

\* The download() call settles: its promise resolves (err = "none") or rejects.
\* (done keeps the fetched documents of a Team download and of a download
\* that another one overlapped.)
Settle(op, err) ==
    /\ ops' = ops \ {op}
    /\ done' = [id |-> op.id, kind |-> op.kind, event_key |-> op.event_key,
                org_key |-> op.org_key,
                err |-> err, fetches |-> op.fetches, pre |-> op.pre,
                teams |-> IF op.kind = "Team" THEN op.got ELSE <<>>,
                got |-> IF Overlapped(op) THEN op.got ELSE <<>>]

\* The awaited fetchJSON rejected.
FetchFailed(op) ==
    /\ Settle(op, "FetchError")
    /\ UNCHANGED <<widget, server, page, db, now, started>>

\* The awaited fetchJSON resolved with list; the transaction comes next.
FetchReturned(op, list) ==
    /\ ops' = (ops \ {op}) \cup {[op EXCEPT !.got = list, !.pc = "tx"]}
    /\ UNCHANGED <<widget, server, page, db, now, done, started>>

\* The transaction ran and download() settled with its outcome.
RunTransaction(op, tx) ==
    LET outcome == transaction(db, tx)
    IN  /\ db' = outcome.db
        /\ Settle(op, outcome.err)
        /\ UNCHANGED <<widget, server, page, now, started>>

\* The lists a fetch can resolve with: no document, one, or two.
Lists(docs) ==
    {<<>>} \cup {<<a>> : a \in docs} \cup {<<a, b>> : a \in docs, b \in docs}

SyncStatus(table, filter, time) == [table |-> table, filter |-> filter, time |-> time]

\* ---------------------------------------------------------------- EventOperations

Event(id, key, team_keys) == [_id |-> id, key |-> key, team_keys |-> team_keys]

Events ==
    {Event("e1", EK1, {"frc1", "frc2"}), Event("e2", EK2, {"frc3"}),
     Event("e1", EK2, {"frc1"})}

\* EventBody with db.events.put in place of db.events.add.
EventBody_put(tx, event) == put(tx, "events", event)

\* The body of the Event transaction.
EventBody(tx, event) == add(tx, "events", event)

EventDownload_call == Call("Event")

EventDownload_fetch ==
    \E op \in ops :
        /\ op.kind = "Event" /\ op.pc = "fetch"
        /\ \/ FetchFailed(op)
           \/ \E event \in Events : FetchReturned(op, <<event>>)

EventDownload_transaction ==
    \E op \in ops :
        /\ op.kind = "Event" /\ op.pc = "tx"
        /\ RunTransaction(op, EventBody(BeginTx({"events"}, db), op.got[1]))

\* ---------------------------------------------------------------- TeamOperations

Team(id, key, name) == [_id |-> id, key |-> key, name |-> name]

Teams == {Team("t1", "frc1", "new"), Team("t3", "frc3", "new")}

\* The stores the Team transaction is opened on.
TeamScope == {"events"}

\* TeamBody without the assertion: reading team_keys of no event is a TypeError.
TeamBody_noAssert(tx, event_key, teams) ==
    LET found == where(tx.db.events, [key |-> event_key])
        t1 == Access(tx, "events",
                     IF found = {} THEN [tx EXCEPT !.err = "TypeError"] ELSE tx)
        event == CHOOSE e \in found : TRUE
        t2 == IF t1.err # "none" THEN t1
              ELSE delete(t1, "teams",
                          whereAnyOf(t1.db.teams, "key", event.team_keys))
        t3 == bulkAdd(t2, "teams", teams)
    IN  t3

\* The body of the Team transaction.
TeamBody(tx, event_key, teams) ==
    LET found == where(tx.db.events, [key |-> event_key])
        t1 == Access(tx, "events",
                     IF found = {} THEN [tx EXCEPT !.err = "AssertionError"] ELSE tx)
        event == CHOOSE e \in found : TRUE
        t2 == IF t1.err # "none" THEN t1
              ELSE delete(t1, "teams",
                          whereAnyOf(t1.db.teams, "key", event.team_keys))
        t3 == bulkAdd(t2, "teams", teams)
    IN  t3

TeamDownload_call == Call("Team")

TeamDownload_fetch ==
    \E op \in ops :
        /\ op.kind = "Team" /\ op.pc = "fetch"
        /\ \/ FetchFailed(op)
           \/ \E list \in Lists(Teams) : FetchReturned(op, list)

TeamDownload_transaction ==
    \E op \in ops :
        /\ op.kind = "Team" /\ op.pc = "tx"
        /\ RunTransaction(op, TeamBody(BeginTx(TeamScope, db), op.event_key, op.got))

\* ---------------------------------------------------------------- MatchOperations

LightMatch(key, event_key, time) == [key |-> key, event_key |-> event_key, time |-> time]

Matches ==
    {LightMatch("m1", EK1, 1), LightMatch("m1", EK1, 2),
     LightMatch("m2", EK1, 1), LightMatch("m1", EK2, 1)}

\* MatchBody with the sync status stored under another table name.
MatchBody_wrongTable(tx, event_key, matches, time) ==
    LET t1 == delete(tx, "lightmatches",
                     where(tx.db.lightmatches, [event_key |-> event_key]))
        t2 == bulkAdd(t1, "lightmatches", matches)
        t3 == put(t2, "syncstatus",
                  SyncStatus("matches", <<"event", event_key>>, time))
    IN  t3

\* MatchBody with a constant time in the sync status (new Date(0)).
MatchBody_epoch(tx, event_key, matches, time) ==
    LET t1 == delete(tx, "lightmatches",
                     where(tx.db.lightmatches, [event_key |-> event_key]))
        t2 == bulkAdd(t1, "lightmatches", matches)
        t3 == put(t2, "syncstatus",
                  SyncStatus("lightmatches", <<"event", event_key>>, 0))
    IN  t3

\* MatchBody without the delete of the event's rows.
MatchBody_noDelete(tx, event_key, matches, time) ==
    LET t2 == bulkAdd(tx, "lightmatches", matches)
        t3 == put(t2, "syncstatus",
                  SyncStatus("lightmatches", <<"event", event_key>>, time))
    IN  t3

\* The body of the Match transaction.
MatchBody(tx, event_key, matches, time) ==
    LET t1 == delete(tx, "lightmatches",
                     where(tx.db.lightmatches, [event_key |-> event_key]))
        t2 == bulkAdd(t1, "lightmatches", matches)
        t3 == put(t2, "syncstatus",
                  SyncStatus("lightmatches", <<"event", event_key>>, time))
    IN  t3

MatchDownload_call == Call("Match")

MatchDownload_fetch ==
    \E op \in ops :
        /\ op.kind = "Match" /\ op.pc = "fetch"
        /\ \/ FetchFailed(op)
           \/ \E list \in Lists(Matches) : FetchReturned(op, list)

MatchDownload_transaction ==
    \E op \in ops :
        /\ op.kind = "Match" /\ op.pc = "tx"
        /\ RunTransaction(op,
               MatchBody(BeginTx({"lightmatches", "syncstatus"}, db),
                         op.event_key, op.got, now))

\* ---------------------------------------------------------------- MatchScoutingOperations

\* Match scouting documents: an assignment, with the scouted data once the
\* match has been scouted.
Assignment(key, scorer) == [match_team_key |-> key, assigned_scorer |-> scorer]
Scouted(key, scorer, data) ==
    [match_team_key |-> key, assigned_scorer |-> scorer, data |-> data]

MatchScoutings ==
    {Scouted("k1", "s1", "d1"), Assignment("k1", "s2"), Assignment("k2", "s1")}

\* The stored row with the fields of the fetched row written over it.
mergeInto(rows, row) ==
    LET old == {s \in rows : s.match_team_key = row.match_team_key}
    IN  IF old = {} THEN row
        ELSE LET o == CHOOSE s \in old : TRUE
             IN  [f \in DOMAIN o \cup DOMAIN row |->
                     IF f \in DOMAIN row THEN row[f] ELSE o[f]]

RECURSIVE bulkMerge(_, _)
bulkMerge(tx, list) ==
    IF list = <<>> THEN tx
    ELSE bulkMerge(put(tx, "matchscouting", mergeInto(tx.db.matchscouting, Head(list))),
                   Tail(list))

\* MatchScoutingBody that clears the match schedule of the event as well.
MatchScoutingBody_clearsMatches(tx, event_key, org_key, matchScouting, time) ==
    LET t1 == bulkPut([tx EXCEPT !.db.lightmatches = {}], "matchscouting", matchScouting)
        t2 == put(t1, "syncstatus",
                  SyncStatus("orgs", <<"org", org_key, "event", event_key>>, time))
    IN  t2

\* MatchScoutingBody with a field-by-field merge in place of bulkPut.
MatchScoutingBody_merge(tx, event_key, org_key, matchScouting, time) ==
    LET t1 == bulkMerge(tx, matchScouting)
        t2 == put(t1, "syncstatus",
                  SyncStatus("orgs", <<"org", org_key, "event", event_key>>, time))
    IN  t2

\* MatchScoutingBody that adds the fetched documents with bulkAdd.
MatchScoutingBody_bulkAdd(tx, event_key, org_key, matchScouting, time) ==
    LET t1 == bulkAdd(tx, "matchscouting", matchScouting)
        t2 == put(t1, "syncstatus",
                  SyncStatus("orgs", <<"org", org_key, "event", event_key>>, time))
    IN  t2

\* The body of the MatchScouting transaction.
MatchScoutingBody(tx, event_key, org_key, matchScouting, time) ==
    LET t1 == bulkPut(tx, "matchscouting", matchScouting)
        t2 == put(t1, "syncstatus",
                  SyncStatus("orgs", <<"org", org_key, "event", event_key>>, time))
    IN  t2

MatchScoutingDownload_call == Call("MatchScouting")

MatchScoutingDownload_fetch ==
    \E op \in ops :
        /\ op.kind = "MatchScouting" /\ op.pc = "fetch"
        /\ \/ FetchFailed(op)
           \/ \E list \in Lists(MatchScoutings) : FetchReturned(op, list)

MatchScoutingDownload_transaction ==
    \E op \in ops :
        /\ op.kind = "MatchScouting" /\ op.pc = "tx"
        /\ RunTransaction(op,
               MatchScoutingBody(BeginTx({"matchscouting", "syncstatus"}, db),
                                 op.event_key, op.org_key, op.got, now))

\* ---------------------------------------------------------------- FormLayoutOperations

Layout(id, org_key, year, form_type, label) ==
    [_id |-> id, org_key |-> org_key, year |-> year, form_type |-> form_type,
     label |-> label]

Year2024 == Number(<<"2", "0", "2", "4">>)
Year2023 == Number(<<"2", "0", "2", "3">>)

Layouts ==
    {Layout("l1", Org1, Year2024, "matchscouting", "a"),
     Layout("l2", Org1, Year2024, "pitscouting", "a")}

LayoutFilter(org_key, year, form_type) ==
    <<"org", org_key, "year", year, "type", form_type>>

\* FormLayoutBody without the delete of the pit form.
FormLayoutBody_noPitDelete(tx, org_key, year, matchFormData, pitFormData, time) ==
    LET t2 == delete(tx, "layout",
                     where(tx.db.layout,
                           [org_key |-> org_key, year |-> year,
                            form_type |-> "matchscouting"]))
        t3 == bulkPut(t2, "layout", pitFormData)
        t4 == bulkPut(t3, "layout", matchFormData)
        t5 == bulkPut(t4, "syncstatus",
                  <<SyncStatus("layout", LayoutFilter(org_key, year, "matchscouting"), time),
                    SyncStatus("layout", LayoutFilter(org_key, year, "pitscouting"), time)>>)
    IN  t5

\* The body of the FormLayout transaction.
FormLayoutBody(tx, org_key, year, matchFormData, pitFormData, time) ==
    LET t1 == delete(tx, "layout",
                     where(tx.db.layout,
                           [org_key |-> org_key, year |-> year,
                            form_type |-> "pitscouting"]))
        t2 == delete(t1, "layout",
                     where(t1.db.layout,
                           [org_key |-> org_key, year |-> year,
                            form_type |-> "matchscouting"]))
        t3 == bulkPut(t2, "layout", pitFormData)
        t4 == bulkPut(t3, "layout", matchFormData)
        t5 == bulkPut(t4, "syncstatus",
                  <<SyncStatus("layout", LayoutFilter(org_key, year, "matchscouting"), time),
                    SyncStatus("layout", LayoutFilter(org_key, year, "pitscouting"), time)>>)
    IN  t5

FormLayoutDownload_call == Call("FormLayout")

\* FormLayoutDownload_fetch with the match form written as soon as it is
\* fetched (await db.layout.bulkPut(matchFormData) ahead of the second fetch).
FormLayoutDownload_fetch_put ==
    \E op \in ops :
        /\ op.kind = "FormLayout" /\ op.pc = "fetch"
        /\ \/ FetchFailed(op)
           \/ /\ \E list \in Lists(Layouts) :
                    /\ ops' = (ops \ {op}) \cup
                              {[op EXCEPT !.got = list, !.pc = "fetch2", !.fetches = 2]}
                    /\ db' = transaction(db, bulkPut(BeginTx({"layout"}, db),
                                                     "layout", list)).db
              /\ UNCHANGED <<widget, server, page, now, done, started>>

\* The first fetch (match form) settles.
FormLayoutDownload_fetch ==
    \E op \in ops :
        /\ op.kind = "FormLayout" /\ op.pc = "fetch"
        /\ \/ FetchFailed(op)
           \/ /\ \E list \in Lists(Layouts) :
                    ops' = (ops \ {op}) \cup
                           {[op EXCEPT !.got = list, !.pc = "fetch2", !.fetches = 2]}
              /\ UNCHANGED <<widget, server, page, db, now, done, started>>

\* The second fetch (pit form) settles.
FormLayoutDownload_fetch2 ==
    \E op \in ops :
        /\ op.kind = "FormLayout" /\ op.pc = "fetch2"
        /\ \/ FetchFailed(op)
           \/ /\ \E list \in Lists(Layouts) :
                    ops' = (ops \ {op}) \cup {[op EXCEPT !.got2 = list, !.pc = "tx"]}
              /\ UNCHANGED <<widget, server, page, db, now, done, started>>

FormLayoutDownload_transaction ==
    \E op \in ops :
        /\ op.kind = "FormLayout" /\ op.pc = "tx"
        /\ RunTransaction(op,
               FormLayoutBody(BeginTx({"layout", "syncstatus"}, db),
                              op.org_key, yearOf(op.event_key), op.got, op.got2, now))

\* ---------------------------------------------------------------- clock

Tick ==
    /\ now < MaxTime
    /\ now' = now + 1
    /\ UNCHANGED <<widget, server, page, db, ops, done, started>>

\* ---------------------------------------------------------------- server middleware

\* JavaScript values of the server side.  A string is the sequence of its
\* pieces, single characters where the characters matter; a number is a
\* value as Number() gives it.
Undefined == [t |-> "undefined"]
Null == [t |-> "null"]
Str(s) == [t |-> "string", v |-> s]
Num(n) == [t |-> "number", v |-> n]
Bool(b) == [t |-> "boolean", v |-> b]
EmptyObject == [t |-> "object"]

\* obj.name = value
SetField(obj, name, value) ==
    [f \in DOMAIN obj \cup {name} |-> IF f = name THEN value ELSE obj[f]]

\* The integer of a whole number value.
RECURSIVE TimesPow10(_, _)
TimesPow10(m, e) == IF e = 0 THEN m ELSE TimesPow10(10 * m, e - 1)

IntValue(v) == IF v.neg THEN 0 - TimesPow10(v.m, v.e) ELSE TimesPow10(v.m, v.e)

\* The string without its leading white space.
RECURSIVE trimStart(_)
trimStart(s) ==
    IF s # <<>> /\ Head(s) \in WhiteSpace THEN trimStart(Tail(s)) ELSE s

\* The number of digits s starts with.
RECURSIVE LeadingDigits(_)
LeadingDigits(s) ==
    IF s # <<>> /\ Head(s) \in DOMAIN DigitValue THEN 1 + LeadingDigits(Tail(s)) ELSE 0

\* parseInt with the strictness of Number(): the whole text must be numeric.
parseInt_asNumber(x) == IF x.t = "string" THEN Number(x.v) ELSE NaN

\* parseInt(x): the text of x (undefined reads "undefined") without leading
\* white space and sign, up to its first character that is not a digit; NaN
\* when that is empty.  (A 0x prefix needs a character the model does not draw.)
parseInt(x) ==
    IF x.t # "string" THEN NaN
    ELSE LET t    == trimStart(x.v)
             neg  == t # <<>> /\ Head(t) = "-"
             body == IF t # <<>> /\ Head(t) \in {"+", "-"} THEN Tail(t) ELSE t
             n    == LeadingDigits(body)
         IN  IF n = 0 THEN NaN ELSE Normal(neg, DigitsToInt(SubSeq(body, 1, n)), 0)

\* No request is being handled.
NoRequest == [stage |-> "none"]
NoResponse == [stage |-> "none"]
NoReturn == [kind |-> "none"]

\* What a call left: the function called, its arguments, and how it ended:
\* "next" (a middleware called next(value)), "returned", "resolved", "rejected".
Return(kind, call, args, value) ==
    [kind |-> kind, call |-> call, args |-> args, value |-> value]

Error(message) == [t |-> "error", message |-> message]

\* The response as Express makes it: res.render and res.redirect are the
\* implementations named, nothing rendered or redirected yet.
NewResponse(render) ==
    [render |-> render, redirect |-> render, rendered |-> <<>>, redirected |-> <<>>,
     statusCode |-> 200, locals |-> [f \in {} |-> Undefined]]

\* The function res.render or res.redirect was before renderLogger wrapped
\* it: it acts on its receiver with its arguments and returns result.
original(rs, op, receiver, args, result) ==
    [rs EXCEPT ![op] = Append(@, [this |-> receiver, args |-> args, returned |-> result])]

\* ---------------------------------------------------------------- renderLogger

\* The line the render wrapper logs.
RenderLine(rq, link, beforeRenderTime, renderTime) ==
    <<"Completed route in ", beforeRenderTime, " ms; Rendered in ", renderTime,
      " ms [Route: ", rq.originalUrl, " View: ", link>>

\* The line the redirect wrapper logs.
RedirectLine(rq, args, completedRouteTime) ==
    <<"Completed ", rq.url, " in ", completedRouteTime, " ms; Redirecting to ",
      IF args # <<>> /\ args[1].t = "string" THEN args[1].v ELSE <<" ">>,
      IF Len(args) > 1 /\ args[2].t = "string" THEN args[2].v ELSE <<" ">>>>

\* The wrapper that returns nothing.
logged_noReturn(rq, rs, cons, op, receiver, args, result, elapsed) ==
    [res |-> original(rs, op, receiver, args, result),
     console |-> Append(cons,
                    IF op = "rendered"
                    THEN RenderLine(rq, args[1].v, elapsed, 0)
                    ELSE RedirectLine(rq, args, elapsed)),
     value |-> Undefined]

\* The function renderLogger puts in res.render and res.redirect: it applies
\* the cached function to its own receiver and arguments, logs a line and
\* returns what the cached function returned.
logged(rq, rs, cons, op, receiver, args, result, elapsed) ==
    [res |-> original(rs, op, receiver, args, result),
     console |-> Append(cons,
                    IF op = "rendered"
                    THEN RenderLine(rq, args[1].v, elapsed, 0)
                    ELSE RedirectLine(rq, args, elapsed)),
     value |-> result]

\* A call receiver.render(...args) or receiver.redirect(...args) of the
\* function that res holds (op is "rendered" or "redirected").
apply(rq, rs, cons, op, receiver, args, result, elapsed) ==
    IF (IF op = "rendered" THEN rs.render ELSE rs.redirect) = "logged"
    THEN logged(rq, rs, cons, op, receiver, args, result, elapsed)
    ELSE [res |-> original(rs, op, receiver, args, result), console |-> cons,
          value |-> result]

\* ---------------------------------------------------------------- authenticate

MaxLevel == 3

User(name, access_level) ==
    [t |-> "object", name |-> name, org_key |-> Org1,
     role |-> [access_level |-> access_level]]

Users ==
    {Undefined, User("default_user", 0), User("scouter", 1), User("admin", MaxLevel)}

Urls == {<<"/scouting/pit">>, <<"/manage">>}

\* The characters of the access-level arguments the model draws.
LevelAlphabet == {"1", "3", "x", ".", " ", "-"}

\* The arguments of req.authenticate: process.env.ACCESS_X is a string of at
\* most two characters, or undefined.
AccessLevels ==
    {Undefined} \cup {Str(s) : s \in UNION {[1..n -> LevelAlphabet] : n \in 0..2}}

\* The comparison with a level above the user's own required.
isAuthenticated_strict(user, accessLevel) ==
    user.role.access_level > IntValue(accessLevel)

\* if( userRole.access_level >= accessLevel ) isAuthenticated = true
isAuthenticated(user, accessLevel) ==
    user.role.access_level >= IntValue(accessLevel)

\* The function functions.authenticate writes to req.authenticate, called
\* with argument arg.
req_authenticate_apply(rq, rs, cons, arg) ==
    LET accessLevel == parseInt(arg)
        user == rq.user
        info == Append(cons, <<"User has requested access to ", rq.originalUrl>>)
        redirect(c, url) == apply(rq, rs, c, "redirected", "res", <<Str(url)>>,
                                  Undefined, 0)
    IN  IF isNaN(accessLevel)
        THEN [res |-> rs, console |-> cons,
              ret |-> Return("rejected", "req.authenticate", <<arg>>,
                             Error("req.authenticate: Access level is not a number"))]
        ELSE IF user # Undefined
        THEN IF isAuthenticated(user, accessLevel)
             THEN [res |-> rs, console |-> info,
                   ret |-> Return("resolved", "req.authenticate", <<arg>>, Bool(TRUE))]
             ELSE LET r == IF rq.method = "GET" /\ user.name = "default_user"
                           THEN redirect(info, <<"/user/login?redirectURL=">>
                                                   \o rq.originalUrl)
                           ELSE redirect(info,
                                    <<"/?alert=You are not authorized to access this page.&type=error">>)
                  IN  [res |-> r.res, console |-> r.console,
                       ret |-> Return("resolved", "req.authenticate", <<arg>>, Bool(FALSE))]
        ELSE LET r == redirect(cons, <<"/?redirectURL=">> \o rq.originalUrl)
             IN  [res |-> r.res, console |-> r.console,
                  ret |-> Return("resolved", "req.authenticate", <<arg>>, Bool(FALSE))]

\* functions.authenticate(req, res, next)
authenticate ==
    /\ ret = NoReturn
    /\ req' = [req EXCEPT !.authenticate = TRUE]
    /\ ret' = Return("next", "authenticate", <<>>, Undefined)
    /\ UNCHANGED <<widget, client, res, console>>

\* A route calls req.authenticate(accessLevel).
req_authenticate ==
    \E accessLevel \in AccessLevels :
        /\ req.authenticate
        /\ ret.kind = "next"
        /\ LET out == req_authenticate_apply(req, res, console, accessLevel)
           IN  /\ res' = out.res
               /\ console' = out.console
               /\ ret' = out.ret
        /\ UNCHANGED <<widget, client, req>>

\* A request as the middleware receives it.
Request(user, method, url) ==
    [user |-> user, method |-> method, originalUrl |-> url, url |-> url,
     authenticate |-> FALSE]

\* A page that has made no notification card.
NoCards ==
    /\ cards = <<>>
    /\ document = [container |-> FALSE, children |-> <<>>, created |-> 0]
    /\ timers = <<>>
    /\ clock = 0
    /\ thrown = Undefined

\* The sync client at rest, while the server is looked at.
ClientIdle ==
    /\ page = Page(NoKey, NoOrg)
    /\ db = EmptyDB
    /\ now = 1
    /\ ops = {}
    /\ done = NoOp
    /\ started = 0

InitAuth ==
    /\ ClientIdle
    /\ NoCards
    /\ req \in {Request(user, method, url) :
                    user \in Users, method \in {"GET", "POST"}, url \in Urls}
    /\ res \in {NewResponse("express"), NewResponse("logged")}
    /\ console = <<>>
    /\ ret = NoReturn

NextAuth ==
    \/ authenticate
    \/ req_authenticate

\* A request passes functions.authenticate and its route calls req.authenticate.
SpecAuth == InitAuth /\ [][NextAuth]_vars

\* ---------------------------------------------------------------- renderLogger calls

MaxCalls == 2

Views == {<<"index">>, <<"error">>}

\* functions.renderLogger(req, res, next): res.render and res.redirect become
\* the logging wrappers of the functions they were.
renderLogger ==
    /\ ret = NoReturn
    /\ res' = [res EXCEPT !.render = "logged", !.redirect = "logged"]
    /\ ret' = Return("next", "renderLogger", <<>>, Undefined)
    /\ UNCHANGED <<widget, client, req, console>>

\* A call of the function in res.render or res.redirect, on res or on another
\* receiver; the function that was wrapped returns result.
Invoke(op, call, receiver, args) ==
    \E result \in {Undefined, Str(<<"html">>)}, elapsed \in 0..1 :
        /\ ret.kind # "none"
        /\ Len(res.rendered) + Len(res.redirected) < MaxCalls
        /\ LET out == apply(req, res, console, op, receiver, args, result, elapsed)
           IN  /\ res' = out.res
               /\ console' = out.console
               /\ ret' = SetField(Return("returned", call, args, out.value),
                                  "this", receiver)
        /\ UNCHANGED <<widget, client, req>>

\* res.render(link, param)
res_render ==
    \E receiver \in {"res", "other"}, link \in Views,
       param \in {Undefined, EmptyObject} :
        Invoke("rendered", "res.render", receiver, <<Str(link), param>>)

\* res.redirect(url) and res.redirect(status, url)
res_redirect ==
    \E receiver \in {"res", "other"}, url \in Urls :
        \/ Invoke("redirected", "res.redirect", receiver, <<Str(url)>>)
        \/ Invoke("redirected", "res.redirect", receiver,
                  <<Num(Normal(FALSE, 302, 0)), Str(url)>>)

InitRender ==
    /\ ClientIdle
    /\ NoCards
    /\ req \in {Request(user, "GET", url) : user \in Users, url \in Urls}
    /\ res = NewResponse("express")
    /\ console = <<>>
    /\ ret = NoReturn

NextRender ==
    \/ renderLogger
    \/ res_render
    \/ res_redirect

\* A request passes functions.renderLogger and its route renders or redirects.
SpecRender == InitRender /\ [][NextRender]_vars

\* ---------------------------------------------------------------- requestLogger

\* '' + n for a natural number n: its decimal digits.
RECURSIVE toString(_)
toString(n) ==
    LET digit == CHOOSE c \in DOMAIN DigitValue : DigitValue[c] = n % 10
    IN  IF n < 10 THEN <<digit>> ELSE toString(n \div 10) \o <<digit>>

\* list.join(sep)
RECURSIVE join(_, _)
join(list, sep) ==
    IF list = <<>> THEN <<>>
    ELSE IF Len(list) = 1 THEN list[1]
    ELSE list[1] \o sep \o join(Tail(list), sep)

\* The local date and time of new Date(req.requestTime): getFullYear(),
\* getMonth() (from 0), getDate(), getHours(), getMinutes(), getSeconds().
Date(year, month, date, hours, minutes, seconds) ==
    [year |-> year, month |-> month, date |-> date, hours |-> hours,
     minutes |-> minutes, seconds |-> seconds]

\* formattedReqTime: month and day get a leading zero when they have one
\* digit; year, hours, minutes and seconds are joined as the numbers they are.
formattedReqTime(d) ==
    LET month0  == toString(d.month + 1)
        day0    == toString(d.date)
        month   == IF Len(month0) < 2 THEN <<"0">> \o month0 ELSE month0
        day     == IF Len(day0) < 2 THEN <<"0">> \o day0 ELSE day0
    IN  join(<<toString(d.year), month, day,
               join(<<toString(d.hours), toString(d.minutes), toString(d.seconds)>>,
                    <<":">>)>>,
             <<"-">>)

UserAgent(flags, os, browser) == [flags |-> flags, os |-> os, browser |-> browser]

\* req.shortagent
shortagent(rq) ==
    [ip |-> IF rq.forwarded # Undefined THEN rq.forwarded ELSE rq.remoteAddress,
     device |-> IF "isMobile" \in rq.useragent.flags THEN "mobile"
                ELSE IF "isDesktop" \in rq.useragent.flags THEN "desktop"
                ELSE IF rq.useragent.flags \cap {"isiPad", "isAndroidTablet"} # {}
                     THEN "tablet"
                ELSE IF "isBot" \in rq.useragent.flags THEN "bot"
                ELSE "other",
     os |-> rq.useragent.os,
     browser |-> rq.useragent.browser]

\* functions.requestLogger(req, res, next)
requestLogger ==
    /\ ret = NoReturn
    /\ LET sa == shortagent(req)
       IN  /\ req' = SetField(req, "shortagent", sa)
           /\ res' = [res EXCEPT !.locals = SetField(@, "shortagent", sa)]
           /\ console' = Append(console,
                  <<req.method, " Request from ", sa.ip, " on ", sa.device, "|",
                    sa.os, "|", sa.browser, " to ", req.url, " at ",
                    formattedReqTime(req.requestTime)>>)
    /\ ret' = Return("next", "requestLogger", <<>>, Undefined)
    /\ UNCHANGED <<widget, client>>

\* The times of the requests the model draws.
RequestTimes ==
    {Date(year, month, date, hours, minutes, seconds) :
        year \in {2024, 2025}, month \in {0, 8, 9, 11}, date \in {1, 9, 10, 31},
        hours \in {0, 9, 10, 23}, minutes \in {0, 59}, seconds \in {5, 30}}

UserAgents ==
    {UserAgent({"isMobile"}, "iOS", "Safari"), UserAgent({"isDesktop"}, "Linux", "Firefox"),
     UserAgent({"isBot"}, "unknown", "curl")}

InitLogger ==
    /\ ClientIdle
    /\ NoCards
    /\ req \in {SetField(SetField(SetField(SetField(Request(Undefined, "GET", <<"/home">>),
                    "requestTime", time), "useragent", agent),
                    "forwarded", forwarded), "remoteAddress", Str(<<"10.0.0.1">>)) :
                    time \in RequestTimes, agent \in UserAgents,
                    forwarded \in {Undefined, Str(<<"192.0.2.7">>)}}
    /\ res = NewResponse("express")
    /\ console = <<>>
    /\ ret = NoReturn

NextLogger == requestLogger

\* A request passes functions.requestLogger.
SpecLogger == InitLogger /\ [][NextLogger]_vars

\* ---------------------------------------------------------------- getEventInfo

\* Documents of the server database: organisations, with or without a
\* current event, and events, with or without a list of teams.
Org(org_key, event_key) == [t |-> "object", org_key |-> org_key, event_key |-> event_key]

ServerEvent(key, year, name, team_keys) ==
    [t |-> "object", key |-> key, year |-> year, name |-> name, team_keys |-> team_keys]

\* What utilities.findOne("orgs", {org_key}) can give.
FoundOrgs(org_key) ==
    {Null, Org(org_key, Undefined), Org(org_key, Str(EK1)), Org(org_key, Str(EKbad))}

\* What utilities.findOne("events", {key}) can give.
FoundEvents(key) ==
    IF key = Undefined THEN {Null}
    ELSE {Null} \cup {ServerEvent(key, 2024, name, team_keys) :
                         name \in {<<"Wayne">>, <<"Lakes">>},
                         team_keys \in {Undefined, Str(<<>>), Str(<<"frc1", "frc2">>)}}

\* What utilities.find("teams", {key: {$in: team_keys}}) can give.
FoundTeams == {<<>>, <<"frc1">>, <<"frc1", "frc2">>}

\* The request and the response after functions.getEventInfo, thisOrg,
\* currentEvent and teams being what the lookups gave (thisOrg is undefined
\* when the request has no user with an org_key).
getEventInfo_apply(rq, rs, thisOrg, currentEvent, teams) ==
    LET event0 == [key |-> Str(<<"undefined">>), name |-> Str(<<"undefined">>),
                   year |-> Str(<<"undefined">>), teams |-> Null]
        rs0    == [rs EXCEPT !.locals = SetField(@, "eventName", Str(<<"No event defined">>))]
    IN  IF thisOrg \in {Undefined, Null}
        THEN [req |-> SetField(rq, "event", event0), res |-> rs0]
        ELSE LET eventId   == thisOrg.event_key
                 eventYear == Num(parseInt(eventId))
                 event1    == [event0 EXCEPT !.key = eventId, !.year = eventYear]
                 rs1       == [rs0 EXCEPT
                                 !.locals = SetField(SetField(@, "event_key", eventId),
                                                     "event_year", eventYear)]
             IN  IF currentEvent = Null
                 THEN [req |-> SetField(rq, "event", event1), res |-> rs1]
                 ELSE LET event2 == [event1 EXCEPT !.name = Str(currentEvent.name)]
                          rs2    == [rs1 EXCEPT
                                       !.locals = SetField(@, "eventName",
                                           Str(toString(currentEvent.year) \o <<" ">>
                                                  \o currentEvent.name))]
                      IN  IF currentEvent.team_keys.t = "string"
                                /\ Len(currentEvent.team_keys.v) > 0
                          THEN [req |-> SetField(SetField(rq, "event", event2),
                                                 "teams", teams),
                                res |-> [rs2 EXCEPT !.locals = SetField(@, "teams", teams)]]
                          ELSE [req |-> SetField(rq, "event", event2), res |-> rs2]

\* functions.getEventInfo(req, res, next), with the results of its lookups.
getEventInfo ==
    /\ ret = NoReturn
    /\ \E thisOrg \in IF req.user # Undefined /\ "org_key" \in DOMAIN req.user
                       THEN FoundOrgs(req.user.org_key) ELSE {Undefined} :
         \E currentEvent \in IF thisOrg \in {Undefined, Null} THEN {Null}
                              ELSE FoundEvents(thisOrg.event_key) :
           \E teams \in IF currentEvent # Null /\ currentEvent.team_keys.t = "string"
                              /\ Len(currentEvent.team_keys.v) > 0
                         THEN FoundTeams ELSE {<<>>} :
             LET out == getEventInfo_apply(req, res, thisOrg, currentEvent, teams)
             IN  /\ req' = out.req
                 /\ res' = out.res
                 /\ ret' = SetField(Return("next", "getEventInfo", <<>>, Undefined),
                                    "found", [org |-> thisOrg, event |-> currentEvent])
    /\ UNCHANGED <<widget, client, console>>

\* A user that has not chosen an organisation.
UserWithoutOrg == [t |-> "object", name |-> "guest", role |-> [access_level |-> 0]]

InitEventInfo ==
    /\ ClientIdle
    /\ NoCards
    /\ req \in {Request(user, method, url) :
                    user \in {Undefined, UserWithoutOrg, User("scouter", 1)},
                    method \in {"GET", "POST"}, url \in Urls}
    /\ res \in {NewResponse("express"), NewResponse("logged")}
    /\ console = <<>>
    /\ ret = NoReturn

NextEventInfo == getEventInfo

\* A request passes functions.getEventInfo.
SpecEventInfo == InitEventInfo /\ [][NextEventInfo]_vars

\* ---------------------------------------------------------------- notFoundHandler, errorHandler

Status(err, status) == SetField(err, "status", status)

\* The errors a route or a middleware passes to next(err).
Errors ==
    {Error("boom"), Status(Error("Forbidden"), 403), Status(Error("Bad Gateway"), 502),
     Status(Error("Internal"), 500)}

\* functions.notFoundHandler(req, res, next): no route matched the request.
notFoundHandler ==
    /\ ret = NoReturn
    /\ ret' = Return("next", "notFoundHandler", <<>>, Status(Error("Not Found"), 404))
    /\ UNCHANGED <<widget, client, req, res, console>>

\* A route or a middleware calls next(err).
next_err ==
    \E err \in Errors :
        /\ ret = NoReturn
        /\ ret' = Return("next", "route", <<>>, err)
        /\ UNCHANGED <<widget, client, req, res, console>>

\* errorHandler that gives the view the error in every environment.
errorHandler_exposesError ==
    /\ ret.kind = "next" /\ ret.value.t = "error"
    /\ LET err == ret.value
           r1  == [res EXCEPT
                     !.locals = SetField(SetField(@, "message", err.message),
                                         "error", err),
                     !.statusCode = IF "status" \in DOMAIN err THEN err.status ELSE 500]
           out == apply(req, r1, Append(console, err.message), "rendered", "res",
                        <<Str(<<"error">>)>>, Undefined, 0)
       IN  /\ res' = out.res
           /\ console' = out.console
           /\ ret' = Return("returned", "errorHandler", <<err>>, Undefined)
    /\ UNCHANGED <<widget, client, req>>

\* functions.errorHandler(err, req, res, next): Express calls it with the
\* error passed to next.
errorHandler ==
    /\ ret.kind = "next" /\ ret.value.t = "error"
    /\ LET err == ret.value
           r1  == [res EXCEPT
                     !.locals = SetField(SetField(@, "message", err.message),
                                         "error",
                                         IF req.app.env = "development"
                                         THEN err ELSE EmptyObject),
                     !.statusCode = IF "status" \in DOMAIN err THEN err.status ELSE 500]
           out == apply(req, r1, Append(console, err.message), "rendered", "res",
                        <<Str(<<"error">>)>>, Undefined, 0)
       IN  /\ res' = out.res
           /\ console' = out.console
           /\ ret' = Return("returned", "errorHandler", <<err>>, Undefined)
    /\ UNCHANGED <<widget, client, req>>

Environments == {"development", "production", "test"}

InitError ==
    /\ ClientIdle
    /\ NoCards
    /\ req \in {SetField(Request(Undefined, method, url), "app", [env |-> env]) :
                    method \in {"GET", "POST"}, url \in Urls, env \in Environments}
    /\ res \in {NewResponse("express"), NewResponse("logged")}
    /\ console = <<>>
    /\ ret = NoReturn

NextError ==
    \/ notFoundHandler
    \/ next_err
    \/ errorHandler

\* A request that no route matches, or whose route fails, ends in the error handler.
SpecError == InitError /\ [][NextError]_vars

\* ---------------------------------------------------------------- specification

\* What earlier sessions, at clock reading 0, can have left in the database:
\* nothing, the downloads of event EK1, or those of both events.
StoredDBs ==
    {EmptyDB,
     [EmptyDB EXCEPT
        !.events = {Event("e1", EK1, {"frc1", "frc2"})},
        !.lightmatches = {LightMatch("m2", EK1, 1)},
        !.matchscouting = {Scouted("k1", "s1", "d1")},
        !.layout = {Layout("l1", Org1, Year2024, "matchscouting", "old"),
                    Layout("l0", Org1, Year2024, "pitscouting", "a"),
                    Layout("l8", Org1, Year2023, "pitscouting", "a"),
                    Layout("l9", Org2, Year2024, "matchscouting", "a")},
        !.syncstatus = {SyncStatus("lightmatches", <<"event", EK1>>, 0),
                        SyncStatus("orgs", <<"org", Org1, "event", EK1>>, 0),
                        SyncStatus("layout",
                                   LayoutFilter(Org1, Year2024, "matchscouting"), 0),
                        SyncStatus("layout",
                                   LayoutFilter(Org1, Year2024, "pitscouting"), 0),
                        SyncStatus("layout",
                                   LayoutFilter(Org2, Year2024, "matchscouting"), 0)}],
     [EmptyDB EXCEPT
        !.events = {Event("e1", EK1, {"frc1", "frc2"}), Event("e2", EK2, {"frc3"})},
        !.lightmatches = {LightMatch("m2", EK1, 1), LightMatch("m1", EK2, 1)},
        !.syncstatus = {SyncStatus("lightmatches", <<"event", EK1>>, 0),
                        SyncStatus("lightmatches", <<"event", EK2>>, 0)}]}

\* A session starts later than the sessions before it.
Init ==
    /\ page \in PageKeys
    /\ db \in StoredDBs
    /\ now = 1
    /\ ops = {}
    /\ done = NoOp
    /\ started = 0
    /\ req = NoRequest
    /\ res = NoResponse
    /\ console = <<>>
    /\ ret = NoReturn
    /\ NoCards

Next ==
    \/ EventDownload_call
    \/ EventDownload_fetch
    \/ EventDownload_transaction
    \/ TeamDownload_call
    \/ TeamDownload_fetch
    \/ TeamDownload_transaction
    \/ MatchDownload_call
    \/ MatchDownload_fetch
    \/ MatchDownload_transaction
    \/ MatchScoutingDownload_call
    \/ MatchScoutingDownload_fetch
    \/ MatchScoutingDownload_transaction
    \/ FormLayoutDownload_call
    \/ FormLayoutDownload_fetch
    \/ FormLayoutDownload_fetch2
    \/ FormLayoutDownload_transaction
    \/ Tick

Spec == Init /\ [][Next]_vars

\* ---------------------------------------------------------------- year of an event key

\* Every event key of at most YearChars characters of KeyAlphabet (longer keys
\* have the same year as their first YearChars characters).
YearKeys == UNION {[1..n -> KeyAlphabet] : n \in 0..YearChars}

InitYear ==
    /\ page \in {Page(k, Org1) : k \in YearKeys}
    /\ db = EmptyDB
    /\ now = 1
    /\ ops = {}
    /\ done = NoOp
    /\ started = 0
    /\ req = NoRequest
    /\ res = NoResponse
    /\ console = <<>>
    /\ ret = NoReturn
    /\ NoCards

NextYear ==
    \/ FormLayoutDownload_call
    \/ FormLayoutDownload_fetch
    \/ FormLayoutDownload_fetch2
    \/ FormLayoutDownload_transaction

\* FormLayout downloads alone, for every event key in YearKeys.
SpecYear == InitYear /\ [][NextYear]_vars

\* ---------------------------------------------------------------- concurrent downloads

\* download() called without awaiting the downloads called before.
EventDownload_start == Start("Event")
TeamDownload_start == Start("Team")
MatchDownload_start == Start("Match")
MatchScoutingDownload_start == Start("MatchScouting")
FormLayoutDownload_start == Start("FormLayout")

InitConcurrent ==
    /\ page = Page(EK1, Org1)
    /\ db \in StoredDBs
    /\ now = 1
    /\ ops = {}
    /\ done = NoOp
    /\ started = 0
    /\ req = NoRequest
    /\ res = NoResponse
    /\ console = <<>>
    /\ ret = NoReturn
    /\ NoCards

NextConcurrent ==
    \/ EventDownload_start
    \/ EventDownload_fetch
    \/ EventDownload_transaction
    \/ TeamDownload_start
    \/ TeamDownload_fetch
    \/ TeamDownload_transaction
    \/ MatchDownload_start
    \/ MatchDownload_fetch
    \/ MatchDownload_transaction
    \/ MatchScoutingDownload_start
    \/ MatchScoutingDownload_fetch
    \/ MatchScoutingDownload_transaction
    \/ FormLayoutDownload_start
    \/ FormLayoutDownload_fetch
    \/ FormLayoutDownload_fetch2
    \/ FormLayoutDownload_transaction

\* Downloads started while others are awaiting their fetch or their
\* transaction; the transactions themselves run one at a time (Dexie runs
\* 'rw' transactions on a common store one after the other, and transactions
\* without a common store write different tables).
SpecConcurrent == InitConcurrent /\ [][NextConcurrent]_vars

\* ---------------------------------------------------------------- local edits

\* What a scouter has entered on the device and not submitted: data that no
\* document of the server holds.
LocalData == "local"

\* The stored rows that hold data entered on the device and not submitted.
LocallyModified(rows) == {r \in rows : "data" \in DOMAIN r /\ r.data = LocalData}

\* The scouting form stores what the scouter entered in the row of the
\* assignment; nothing is sent to the server.
LocalEdit ==
    \E r \in db.matchscouting :
        /\ LocallyModified({r}) = {}
        /\ db' = transaction(db,
                     put(BeginTx({"matchscouting"}, db), "matchscouting",
                         Scouted(r.match_team_key, r.assigned_scorer, LocalData))).db
        /\ UNCHANGED <<widget, server, page, now, ops, done, started>>

NextScouting ==
    \/ LocalEdit
    \/ MatchScoutingDownload_call
    \/ MatchScoutingDownload_fetch
    \/ MatchScoutingDownload_transaction
    \/ Tick

\* Scouters enter data while the assignments are downloaded.
SpecScouting == Init /\ [][NextScouting]_vars

\* ---------------------------------------------------------------- NotificationCard

\* The notification cards of a page (primary/public/js/NotificationCard.js)
\* and the submit callback of the pit scouting form that shows them.  The
\* document is the card container and its children; a callback given to
\* setTimeout waits in timers until its time has come.

MaxCards == 2      \* NotificationCard objects constructed on a page
MaxShown == 3      \* elements on a page after which show() is not called
MaxTimers == 3     \* callbacks that wait in timers

\* An options object with its own properties.
Options(own) == [t |-> "object", own |-> own]

\* !v
Falsy(v) ==
    \/ v.t \in {"undefined", "null"}
    \/ v.t = "boolean" /\ ~v.v
    \/ v.t = "number" /\ v.v = 0
    \/ v.t = "string" /\ v.v = <<>>

\* typeof v
typeof(v) == IF v.t \in {"null", "error"} THEN "object" ELSE v.t

defaultOpts ==
    [type |-> Str(<<"normal">>), ttl |-> Num(2000),
     exitable |-> Bool(FALSE), darken |-> Bool(FALSE)]

\* The properties of defaultOpts in the order for..in visits them, the type
\* _filterOptions wants of each and what it throws otherwise.
OptionNames == <<"type", "ttl", "exitable", "darken">>
OptionTypes ==
    [type |-> "string", ttl |-> "number", exitable |-> "boolean", darken |-> "boolean"]
OptionErrors ==
    [type |-> "NotificationCard.opts.type must be string.",
     ttl |-> "NotificationCard.opts.ttl must be a number.",
     exitable |-> "NotificationCard.opts.exitable must be a boolean.",
     darken |-> "NotificationCard.opts.darken must be a boolean."]

\* The colours of a card of the type.
Colors(type) ==
    CASE type \in {Str(<<"good">>), Str(<<"success">>)} ->
            [color |-> "rgb(91, 209, 255)", borderColor |-> "rgb(59, 102, 119)",
             textColor |-> "rgb(0,0,0)"]
      [] type = Str(<<"warn">>) ->
            [color |-> "rgb(230,170,10)", borderColor |-> "rgb(90,54,0)",
             textColor |-> "rgb(0,0,0)"]
      [] type \in {Str(<<"bad">>), Str(<<"error">>)} ->
            [color |-> "rgb(160,20,10)", borderColor |-> "rgb(84,0,0)",
             textColor |-> "rgb(255,255,255)"]
      [] OTHER ->
            [color |-> "rgb(240,245,255)", borderColor |-> "rgb(80,80,84)",
             textColor |-> "rgb(0,0,0)"]

\* this._filterOptions(options): the options of the card, or the error thrown.
_filterOptions(options) ==
    LET bad == {i \in DOMAIN OptionNames :
                   /\ OptionNames[i] \in DOMAIN options.own
                   /\ typeof(options.own[OptionNames[i]]) # OptionTypes[OptionNames[i]]}
    IN  IF bad # {}
        THEN Error(<<"TypeError",
                     OptionErrors[OptionNames[CHOOSE i \in bad : \A j \in bad : i <= j]]>>)
        ELSE LET opts == [o \in DOMAIN defaultOpts |->
                             IF o \in DOMAIN options.own THEN options.own[o]
                             ELSE defaultOpts[o]]
                 c    == Colors(opts.type)
             IN  [type |-> opts.type, ttl |-> opts.ttl, exitable |-> opts.exitable,
                  darken |-> opts.darken, color |-> c.color,
                  borderColor |-> c.borderColor, textColor |-> c.textColor]

\* The page as the functions of the card see it.  A function gives the page
\* it leaves behind; thrown is what it threw.
ThisPage ==
    [cards |-> cards, document |-> document, timers |-> timers, thrown |-> Undefined]

\* new NotificationCard(text, options)
constructor(w, text, options) ==
    LET o == IF Falsy(options) THEN Options(<<>>) ELSE options
    IN  IF typeof(text) # "string"
        THEN [w EXCEPT !.thrown = Error(<<"TypeError",
                                          "NotificationCard: text must be string.">>)]
        ELSE IF typeof(o) # "object"
        THEN [w EXCEPT !.thrown = Error(<<"TypeError",
                                          "NotificationCard: opts must be object.">>)]
        ELSE IF "message" \in DOMAIN _filterOptions(o)
        THEN [w EXCEPT !.thrown = _filterOptions(o)]
        ELSE [w EXCEPT !.cards = Append(@, [text |-> text, opts |-> _filterOptions(o),
                                            card |-> Undefined,
                                            darkener |-> Undefined])]

\* An element that show() creates.
Element(id, class, of, exit) ==
    [t |-> "element", id |-> id, class |-> class, of |-> of, opacity |-> 1, exit |-> exit]

\* setTimeout(callback, delay) at time
setTimeout(w, run, of, delay, time) ==
    [w EXCEPT !.timers = Append(@, [run |-> run, of |-> of, at |-> time + delay])]

\* $(element).remove()
detach(children, element) ==
    IF element = Undefined THEN children
    ELSE SelectSeq(children, LAMBDA e : e.id # element.id)

\* $(element).css("opacity", 0)
fade(children, element) ==
    [k \in DOMAIN children |->
        IF children[k].id = element.id THEN [children[k] EXCEPT !.opacity = 0]
        ELSE children[k]]

\* cards[i].show() at time
show(w, i, time) ==
    LET this     == w.cards[i]
        card     == Element(w.document.created + 1, "notification-card", i,
                            this.opts.exitable.v)
        darkener == Element(w.document.created + 2, "theme-darkener", i, FALSE)
        darken   == this.opts.darken.v
        w1 == [w EXCEPT
                 !.document =
                     [container |-> TRUE,
                      children |-> IF darken THEN w.document.children \o <<card, darkener>>
                                   ELSE Append(w.document.children, card),
                      created |-> IF darken THEN @.created + 2 ELSE @.created + 1],
                 !.cards[i].darkener = IF darken THEN darkener ELSE @,
                 !.cards[i].card = card]
    IN  IF this.opts.ttl.v # 0
        THEN setTimeout(w1, "remove(1900)", i, this.opts.ttl.v, time)
        ELSE w1

\* cards[i].remove(time) at clock reading at
remove(w, i, time, at) ==
    LET this       == w.cards[i]
        removeTime == IF typeof(time) = "number" THEN time.v ELSE 0
    IN  IF Falsy(this.card) THEN w
        ELSE setTimeout([w EXCEPT !.document.children = fade(@, this.card)],
                        "$(this.card).remove()", i, removeTime, at)

\* NotificationCard.show(text, opts)
NotificationCard_show(w, text, opts, time) ==
    LET w1 == constructor(w, text, opts)
    IN  IF w1.thrown # Undefined THEN w1 ELSE show(w1, Len(w1.cards), time)

\* NotificationCard.error(text) with no options
NotificationCard_error(w, text, time) ==
    NotificationCard_show(w, text, Options([type |-> Str(<<"error">>)]), time)

\* What the page passes as text and as options.
Texts == {Str(<<"Saved">>), Undefined}
OptionsPassed ==
    {Undefined,
     Str(<<"error">>),
     Options([ttl |-> Num(0), exitable |-> Bool(TRUE)]),
     Options([ttl |-> Str(<<"2000">>)]),
     Options([darken |-> Bool(TRUE)]),
     Options([darken |-> Bool(TRUE), exitable |-> Bool(TRUE)]),
     Options([darken |-> Bool(TRUE), exitable |-> Bool(TRUE), ttl |-> Num(0)])}

\* The page after a call or a callback, at time.
Becomes(w, time) ==
    /\ cards' = w.cards
    /\ document' = w.document
    /\ timers' = w.timers
    /\ thrown' = w.thrown
    /\ clock' = time
    /\ UNCHANGED <<client, server>>

\* The page makes a card without showing it.
new_NotificationCard ==
    \E text \in Texts, options \in OptionsPassed :
        /\ Len(cards) < MaxCards
        /\ Becomes(constructor(ThisPage, text, options), clock)

\* The page makes and shows a card.
static_show ==
    \E text \in Texts, options \in OptionsPassed :
        /\ Len(cards) < MaxCards
        /\ document.created < MaxShown
        /\ Len(timers) < MaxTimers
        /\ Becomes(NotificationCard_show(ThisPage, text, options, clock), clock)

\* The page shows a card it has made.
card_show ==
    \E i \in DOMAIN cards :
        /\ document.created < MaxShown
        /\ Len(timers) < MaxTimers
        /\ Becomes(show(ThisPage, i, clock), clock)

\* The page removes a card it has made.
card_remove ==
    \E i \in DOMAIN cards :
        /\ Len(timers) < MaxTimers
        /\ Becomes(remove(ThisPage, i, Undefined, clock), clock)

\* The click handler of the exit button of a card that is in the document.
exit_click ==
    \E k \in DOMAIN document.children :
        LET i    == document.children[k].of
            w1   == remove(ThisPage, i, Undefined, clock)
            this == w1.cards[i]
        IN  /\ document.children[k].exit
            /\ Len(timers) < MaxTimers
            /\ Becomes(IF this.opts.darken.v /\ ~Falsy(this.darkener)
                       THEN [w1 EXCEPT !.document.children = detach(@, this.darkener)]
                       ELSE w1,
                       clock)

\* The callback that pitSubmission.submit calls with the outcome.
submit_callback ==
    \E err \in {Null, Error(<<"Error", "submit failed">>)}, message \in Texts :
        /\ Len(cards) < MaxCards
        /\ document.created < MaxShown
        /\ Len(timers) + 1 < MaxTimers
        /\ IF ~Falsy(err)
           THEN Becomes(NotificationCard_error(
                            ThisPage, Str(<<"An error occurred. Please retry.">>), clock),
                        clock)
           ELSE LET w1 == NotificationCard_show(
                              ThisPage, message,
                              Options([darken |-> Bool(TRUE), type |-> Str(<<"good">>),
                                       ttl |-> Num(0)]),
                              clock)
                IN  Becomes(IF w1.thrown # Undefined THEN w1
                            ELSE setTimeout(w1, "window.location.href = '/dashboard'",
                                            0, 1000, clock),
                            clock)

\* The callback of timers that runs next: the earliest, the first set of those.
NextTimer ==
    CHOOSE k \in DOMAIN timers :
        \A j \in DOMAIN timers :
            timers[k].at < timers[j].at \/ (timers[k].at = timers[j].at /\ k <= j)

\* The time of a callback has come and it runs.  Setting the location leaves
\* the page, unless the user stays when window.onbeforeunload asks.
timeout ==
    /\ timers # <<>>
    /\ LET k    == NextTimer
           tm   == timers[k]
           time == IF tm.at > clock THEN tm.at ELSE clock
           rest == [j \in 1..(Len(timers) - 1) |->
                       IF j < k THEN timers[j] ELSE timers[j + 1]]
           w    == [ThisPage EXCEPT !.timers = rest, !.thrown = thrown]
       IN  \/ /\ tm.run = "remove(1900)"
              /\ Becomes(remove(w, tm.of, Num(1900), time), time)
           \/ /\ tm.run = "$(this.card).remove()"
              /\ Becomes([w EXCEPT !.document.children = detach(@, w.cards[tm.of].card)],
                         time)
           \/ /\ tm.run = "window.location.href = '/dashboard'"
              /\ \/ Becomes(w, time)
                 \/ Becomes([cards |-> <<>>,
                             document |-> [container |-> FALSE, children |-> <<>>,
                                           created |-> 0],
                             timers |-> <<>>, thrown |-> Undefined],
                            0)

InitCard ==
    /\ ClientIdle
    /\ req = NoRequest
    /\ res = NoResponse
    /\ console = <<>>
    /\ ret = NoReturn
    /\ NoCards

NextCard ==
    \/ new_NotificationCard
    \/ static_show
    \/ card_show
    \/ card_remove
    \/ exit_click
    \/ submit_callback
    \/ timeout

\* A page that makes, shows and removes notification cards.
SpecCard == InitCard /\ [][NextCard]_vars

\* ================================================================ properties

Rows(list) == {list[i] : i \in DOMAIN list}

HasEvent(d, event_key) == \E e \in d.events : e.key = event_key

StatusRows(d, table, filter) ==
    {r \in d.syncstatus : r.table = table /\ r.filter = filter}

\* This step settles the download() call op.
Settles(op) == op \in ops /\ ops' = ops \ {op}

\* This step is a download() call that throws before its first fetch.
ThrowsAtCall == started' # started /\ ops' = ops

\* Every write of the download op is in the tables d1, op.pre being the tables
\* when it was called and time the clock reading of its transaction.
AllWritten(op, d1, time) ==
    LET d0 == op.pre
        got == Rows(op.got)
    IN  CASE op.kind = "Event" -> got \subseteq d1.events
          [] op.kind = "Team" ->
                /\ HasEvent(d0, op.event_key)
                /\ got \subseteq d1.teams
                /\ \A r \in d0.teams, e \in d0.events :
                      (e.key = op.event_key /\ r.key \in e.team_keys)
                         => (r \notin d1.teams \/ r \in got)
          [] op.kind = "Match" ->
                /\ got \subseteq d1.lightmatches
                /\ \A r \in d0.lightmatches :
                      r.event_key = op.event_key => (r \notin d1.lightmatches \/ r \in got)
                /\ SyncStatus("lightmatches", <<"event", op.event_key>>, time)
                      \in d1.syncstatus
          [] op.kind = "MatchScouting" ->
                /\ \A r \in got : \E s \in d1.matchscouting \cap got :
                      s.match_team_key = r.match_team_key
                /\ SyncStatus("orgs", <<"org", op.org_key, "event", op.event_key>>, time)
                      \in d1.syncstatus
          [] op.kind = "FormLayout" ->
                LET both == got \cup Rows(op.got2)
                    year == yearOf(op.event_key)
                IN  /\ \A r \in both : \E s \in d1.layout \cap both : s._id = r._id
                    /\ \A r \in d0.layout :
                          (r.org_key = op.org_key /\ r.year = year
                             /\ r.form_type \in {"matchscouting", "pitscouting"})
                             => (r \notin d1.layout \/ r \in both)
                    /\ \A type \in {"matchscouting", "pitscouting"} :
                          SyncStatus("layout", LayoutFilter(op.org_key, year, type), time)
                             \in d1.syncstatus

\* C1: a download that has finished, with success or with an error, has left
\* in the tables either all of its deletes, inserts and sync-status update
\* (when it succeeded) or exactly what was there when it was called.
C1_AtomicDownload ==
    [][/\ \A op \in ops : Settles(op) =>
            IF done'.err = "none" THEN AllWritten(op, db', now) ELSE db' = op.pre
       /\ ThrowsAtCall => db' = db]_vars

\* A Match transaction deleted the event's rows, hit a key collision and was
\* rolled back.
C1_Witness ==
    /\ done.kind = "Match" /\ done.err = "ConstraintError"
    /\ \E r \in done.pre.lightmatches : r.event_key = done.event_key
    /\ db = done.pre

\* C2: when a fetch of a download fails (the second FormLayout fetch
\* included) every table is as it was when the download was called, no table
\* is written while a fetch is awaited, and the caller gets the fetch error.
C2_FetchFailureWritesNothing ==
    [][\A op \in ops :
        /\ op.pc \in {"fetch", "fetch2"} => db = op.pre
        /\ (Settles(op) /\ op.pc \in {"fetch", "fetch2"}) =>
              /\ db' = op.pre
              /\ done'.kind = op.kind
              /\ done'.err = "FetchError"]_vars

\* The second FormLayout fetch failed after the first had succeeded.
C2_Witness ==
    /\ done.kind = "FormLayout" /\ done.err = "FetchError" /\ done.fetches = 2
    /\ db = done.pre

\* C3 as stated: a Team download called while no Event with the page's event
\* key is stored always ends with the prerequisite (assertion) error and
\* writes nothing.
C3_AlwaysPrerequisiteError ==
    (/\ done.kind = "Team"
     /\ getKeys(done.event_key, done.org_key)
     /\ ~HasEvent(done.pre, done.event_key))
        => (done.err = "AssertionError" /\ db = done.pre)

\* C3 amended: a Team download called while no Event with the page's event
\* key is stored always fails and writes nothing; the error is the assertion
\* error when the fetch has succeeded (the check runs in the transaction,
\* after the fetch) and the fetch error when the fetch fails.
C3_TeamWithoutEvent ==
    [][\A op \in ops :
        (Settles(op) /\ op.kind = "Team" /\ ~HasEvent(db, op.event_key)) =>
            /\ db' = db /\ db' = op.pre
            /\ done'.err = IF op.pc = "tx" THEN "AssertionError" ELSE "FetchError"]_vars

C3_Witness ==
    /\ done.kind = "Team" /\ done.err = "AssertionError"
    /\ ~HasEvent(db, done.event_key)
    /\ db = done.pre

\* C4: with the Event of the page's event key stored, a Team download whose
\* fetch succeeded succeeds; afterwards every stored Team row whose key is in
\* the event's team_keys is gone unless it was fetched, every fetched team is
\* stored, and the rows with those keys are the fetched rows.
C4_TeamReplacesEventTeams ==
    [][\A op \in ops :
        (Settles(op) /\ op.kind = "Team" /\ op.pc = "tx"
             /\ HasEvent(db, op.event_key)) =>
            LET keys == UNION {e.team_keys : e \in where(db.events, [key |-> op.event_key])}
                got  == Rows(op.got)
            IN  /\ done'.err = "none"
                /\ got \subseteq db'.teams
                /\ \A r \in db'.teams :
                      r.key \in keys \cup {g.key : g \in got} => r \in got]_vars

\* C5: the second of two Team downloads in a row that fetched the same list,
\* with the Event stored: both succeed and the second leaves the Team rows
\* of the first, no key twice.
C5_TeamTwice ==
    [][\A op \in ops :
        (/\ Settles(op) /\ op.kind = "Team" /\ op.pc = "tx"
         /\ done.kind = "Team" /\ done.fetches = 1 /\ done.err # "FetchError"
         /\ done.event_key = op.event_key /\ done.teams = op.got
         /\ HasEvent(done.pre, op.event_key)) =>
            /\ done.err = "none"
            /\ done'.err = "none"
            /\ db'.teams = db.teams
            /\ ValidTable("teams", db'.teams)]_vars

\* C6: the sync-status store never holds two rows with the same table and
\* filter, and after a successful Match download it holds exactly one row
\* with table "lightmatches" and filter "event=<key>".
C6_OneStatusRow ==
    /\ \A r \in db.syncstatus, q \in db.syncstatus :
          (r.table = q.table /\ r.filter = q.filter) => r = q
    /\ (done.kind = "Match" /\ done.err = "none") =>
          Cardinality(StatusRows(db, "lightmatches", <<"event", done.event_key>>)) = 1

\* A Match download succeeded for an event whose status row was already stored.
C6_Witness ==
    /\ done.kind = "Match" /\ done.err = "none"
    /\ StatusRows(done.pre, "lightmatches", <<"event", done.event_key>>) # {}
    /\ Cardinality(StatusRows(db, "lightmatches", <<"event", done.event_key>>)) = 1

\* C7 as stated: a successful Match re-sync stores a time strictly greater
\* than the one stored before; a failed one leaves the stored time.
C7_StrictlyLater ==
    done.kind = "Match" =>
        LET old == StatusRows(done.pre, "lightmatches", <<"event", done.event_key>>)
            new == StatusRows(db, "lightmatches", <<"event", done.event_key>>)
        IN  IF done.err = "none"
            THEN \A o \in old, n \in new : n.time > o.time
            ELSE new = old

\* C7 amended: a successful Match re-sync stores the clock reading of its
\* transaction, which is never smaller than the time stored before and is
\* equal to it when the clock has not advanced in between; a failed one leaves
\* the stored time.
C7_StoresClockReading ==
    [][\A op \in ops :
        (Settles(op) /\ op.kind = "Match") =>
            LET old == StatusRows(db, "lightmatches", <<"event", op.event_key>>)
                new == StatusRows(db', "lightmatches", <<"event", op.event_key>>)
            IN  IF done'.err = "none"
                THEN /\ new = {SyncStatus("lightmatches", <<"event", op.event_key>>, now)}
                     /\ \A o \in old, n \in new :
                           n.time >= o.time /\ (n.time > o.time <=> now > o.time)
                ELSE new = old]_vars

\* A successful re-sync stored the time that was stored before.
C7_Witness ==
    /\ done.kind = "Match" /\ done.err = "none"
    /\ \E o \in StatusRows(done.pre, "lightmatches", <<"event", done.event_key>>),
          n \in StatusRows(db, "lightmatches", <<"event", done.event_key>>) :
            n.time = o.time

LastOfKey(list, i) ==
    \A j \in DOMAIN list : j > i => list[j].match_team_key # list[i].match_team_key

\* C9 as stated: after a successful MatchScouting download the stored row of
\* a fetched key has the fetched fields, and the fields of the row stored
\* before that the fetched record lacks keep their values; with the fetched
\* keys being the stored keys the number of rows is unchanged.
C9_FieldMerge ==
    [][\A op \in ops :
        (Settles(op) /\ op.kind = "MatchScouting" /\ done'.err = "none") =>
            /\ \A i \in DOMAIN op.got, o \in db.matchscouting :
                  (LastOfKey(op.got, i)
                      /\ o.match_team_key = op.got[i].match_team_key) =>
                      \E n \in db'.matchscouting :
                          /\ n.match_team_key = o.match_team_key
                          /\ \A f \in DOMAIN op.got[i] : n[f] = op.got[i][f]
                          /\ \A f \in DOMAIN o \ DOMAIN op.got[i] :
                                f \in DOMAIN n /\ n[f] = o[f]
            /\ {r.match_team_key : r \in Rows(op.got)}
                     = {r.match_team_key : r \in db.matchscouting}
                  => Cardinality(db'.matchscouting) = Cardinality(db.matchscouting)]_vars

\* C9 amended: after a successful MatchScouting download the stored row of a
\* fetched key is the fetched record itself (the last one of the list with
\* that key): the fields it lacks are gone; the rows of the other keys are
\* unchanged, and with the fetched keys being the stored keys the number of
\* rows is unchanged.
C9_WholeReplace ==
    [][\A op \in ops :
        (Settles(op) /\ op.kind = "MatchScouting" /\ done'.err = "none") =>
            LET keys == {r.match_team_key : r \in Rows(op.got)}
            IN  /\ \A i \in DOMAIN op.got :
                      LastOfKey(op.got, i) => op.got[i] \in db'.matchscouting
                /\ {r \in db'.matchscouting : r.match_team_key \notin keys}
                      = {r \in db.matchscouting : r.match_team_key \notin keys}
                /\ {r.match_team_key : r \in db'.matchscouting}
                      = keys \cup {r.match_team_key : r \in db.matchscouting}
                /\ Cardinality(db'.matchscouting)
                      = Cardinality({r.match_team_key : r \in db'.matchscouting})
                /\ keys = {r.match_team_key : r \in db.matchscouting}
                      => Cardinality(db'.matchscouting) = Cardinality(db.matchscouting)]_vars

\* A successful MatchScouting download replaced a row that had scouted data
\* by a fetched record without data.
C9_Witness ==
    /\ done.kind = "MatchScouting" /\ done.err = "none"
    /\ \E o \in done.pre.matchscouting, n \in db.matchscouting :
          /\ n.match_team_key = o.match_team_key
          /\ "data" \in DOMAIN o
          /\ "data" \notin DOMAIN n
    /\ Cardinality(db.matchscouting) = Cardinality(done.pre.matchscouting)

\* The text reads as an integer in the widest sense: it starts, after white
\* space, with an optionally signed digit (parseInt gives a number), or its
\* Number() value is a whole number.
ParsesAsInteger(s) ==
    LET t    == trim(s)
        body == IF t # <<>> /\ Head(t) \in {"+", "-"} THEN Tail(t) ELSE t
    IN  \/ body # <<>> /\ Head(body) \in DOMAIN DigitValue
        \/ IsInteger(Number(s))

\* The text is a StrNumericLiteral in decimal: white space around an optional
\* sign, digits with an optional point among them, and an optional exponent.
NumericText(s) ==
    \/ \A i \in DOMAIN s : s[i] \in WhiteSpace
    \/ \E a \in DOMAIN s, b \in DOMAIN s :
          /\ a <= b
          /\ \A i \in DOMAIN s : (i < a \/ i > b) => s[i] \in WhiteSpace
          /\ \E first \in {a, a + 1} :
                /\ first = a + 1 => s[a] \in {"+", "-"}
                /\ first <= b
                /\ \E last \in first..b :
                      \* first..last is the mantissa, last+1..b the exponent
                      /\ \A i \in first..last : s[i] \in DOMAIN DigitValue \cup {"."}
                      /\ Cardinality({i \in first..last : s[i] = "."}) <= 1
                      /\ \E i \in first..last : s[i] \in DOMAIN DigitValue
                      /\ \/ last = b
                         \/ /\ s[last + 1] \in {"e", "E"}
                            /\ \E d \in {last + 2, last + 3} :
                                  /\ d <= b
                                  /\ d = last + 3 => s[last + 2] \in {"+", "-"}
                                  /\ \A i \in d..b : s[i] \in DOMAIN DigitValue

YearText(event_key) == substring(event_key, YearChars)

\* C10 as stated: a FormLayout download fetches only for an event key whose
\* first four characters read as an integer; for every other key it fails
\* with the assertion error before any fetch and without any write.
C10_FailsUnlessInteger ==
    /\ \A op \in ops :
          op.kind = "FormLayout" => ParsesAsInteger(YearText(op.event_key))
    /\ (/\ done.kind = "FormLayout"
        /\ getKeys(done.event_key, done.org_key)
        /\ ~ParsesAsInteger(YearText(done.event_key)))
          => (done.err = "AssertionError" /\ done.fetches = 0 /\ db = done.pre)

\* C10 amended: the year is Number() of the first four characters of the
\* event key ("2024..." gives 2024).  The download fails with the assertion
\* error, before any fetch and without any write, exactly when those
\* characters are not a numeric literal (Number() gives NaN); a key whose
\* first four characters are another numeric literal or blank (".204", "2e-2",
\* " ") is accepted and the download goes on with that number as the year.
C10_FailsIffNaN ==
    /\ \A op \in ops :
          op.kind = "FormLayout" => NumericText(YearText(op.event_key))
    /\ (done.kind = "FormLayout" /\ getKeys(done.event_key, done.org_key)) =>
          IF NumericText(YearText(done.event_key))
          THEN done.err # "AssertionError" /\ done.fetches >= 1
          ELSE done.err = "AssertionError" /\ done.fetches = 0 /\ db = done.pre
    /\ (/\ done.kind = "FormLayout" /\ done.err = "none"
        /\ YearText(done.event_key) = <<"2", "0", "2", "4">>) =>
          \E r \in db.syncstatus :
              /\ r.table = "layout"
              /\ r.filter[4] = [kind |-> "finite", neg |-> FALSE, m |-> 2024, e |-> 0]

\* A FormLayout download succeeded with an event key whose first four
\* characters do not read as an integer.
C10_Witness ==
    /\ done.kind = "FormLayout" /\ done.err = "none"
    /\ ~ParsesAsInteger(YearText(done.event_key))

\* ---------------------------------------------------------------- C11

FormTypes == {"matchscouting", "pitscouting"}

\* The layout row belongs to the forms of the organisation and year.
InLayoutScope(r, org_key, year) ==
    r.org_key = org_key /\ r.year = year /\ r.form_type \in FormTypes

\* The sync-status rows of table "layout" of the organisation and year.
LayoutStatusRows(d, org_key, year) ==
    {r \in d.syncstatus :
        r.table = "layout" /\ r.filter[2] = org_key /\ r.filter[4] = year}

\* C11: a FormLayout download whose two fetches returned layouts of the
\* organisation, year and form types asked for succeeds; afterwards the layout
\* rows of that organisation and year are exactly the fetched ones (stored rows
\* that were not fetched are gone), the layout rows of every other
\* organisation or year are as before, and the sync-status store has exactly
\* two "layout" rows of that organisation and year, one per form type, with
\* the time of the transaction.
C11_LayoutReplaced ==
    [][\A op \in ops :
        (/\ Settles(op) /\ op.kind = "FormLayout" /\ op.pc = "tx"
         /\ \A r \in Rows(op.got) \cup Rows(op.got2) :
               InLayoutScope(r, op.org_key, yearOf(op.event_key))) =>
            LET year == yearOf(op.event_key)
                both == Rows(op.got) \cup Rows(op.got2)
            IN  /\ done'.err = "none"
                /\ {r \in db'.layout : InLayoutScope(r, op.org_key, year)} = both
                /\ {r \in db'.layout : ~InLayoutScope(r, op.org_key, year)}
                      = {r \in db.layout : ~InLayoutScope(r, op.org_key, year)}
                /\ LayoutStatusRows(db', op.org_key, year)
                      = {SyncStatus("layout", LayoutFilter(op.org_key, year, type), now) :
                            type \in FormTypes}
                /\ Cardinality(LayoutStatusRows(db', op.org_key, year)) = 2
                /\ db'.syncstatus \ LayoutStatusRows(db', op.org_key, year)
                      = db.syncstatus \ LayoutStatusRows(db, op.org_key, year)]_vars

\* A successful FormLayout download removed a stored layout row of its
\* organisation and year that the server no longer has, stored fetched rows,
\* and kept the rows of another organisation and of another year.
C11_Witness ==
    /\ done.kind = "FormLayout" /\ done.err = "none"
    /\ \E r \in done.pre.layout :
          /\ InLayoutScope(r, done.org_key, yearOf(done.event_key))
          /\ r \notin db.layout
    /\ \E r \in db.layout :
          InLayoutScope(r, done.org_key, yearOf(done.event_key)) /\ r \notin done.pre.layout
    /\ \E r \in db.layout : r.org_key # done.org_key
    /\ \E r \in db.layout : r.year # yearOf(done.event_key)
    /\ Cardinality(LayoutStatusRows(db, done.org_key, yearOf(done.event_key))) = 2

\* ---------------------------------------------------------------- C12

\* C12: an Event download whose fetched event has the _id or the key of a
\* stored event fails with the constraint (duplicate key) error and leaves
\* every table as it was; otherwise it succeeds and the events table is the
\* one before with the fetched event added.
C12_EventAddOnce ==
    [][\A op \in ops :
        (Settles(op) /\ op.kind = "Event" /\ op.pc = "tx") =>
            LET event == op.got[1]
            IN  IF \E s \in db.events : s._id = event._id \/ s.key = event.key
                THEN done'.err = "ConstraintError" /\ db' = db
                ELSE /\ done'.err = "none"
                     /\ db' = [db EXCEPT !.events = @ \cup {event}]]_vars

\* The Event download of an event that was stored failed and changed nothing.
C12_Witness ==
    /\ done.kind = "Event" /\ done.err = "ConstraintError"
    /\ HasEvent(done.pre, done.event_key)
    /\ db = done.pre

\* ---------------------------------------------------------------- C14

\* C14: a call of any download() while the page has no event key or no
\* organisation key throws the keys-not-set error at once: no fetch is issued,
\* no table is written; every download that awaits holds both keys.
C14_KeysBeforeFetch ==
    [][/\ \A op \in ops' : op.event_key # NoKey /\ op.org_key # NoOrg
       /\ (started' # started /\ (page.event_key = NoKey \/ page.org_key = NoOrg)) =>
             /\ ops' = ops
             /\ done'.err = "KeysNotSet"
             /\ done'.fetches = 0
             /\ db' = db]_vars

\* A download was called with the event key set and no organisation key.
C14_Witness ==
    /\ done.kind # "none" /\ done.err = "KeysNotSet"
    /\ done.event_key # NoKey /\ done.org_key = NoOrg
    /\ done.fetches = 0 /\ db = done.pre

\* ---------------------------------------------------------------- C13

\* The table of each collection and the table name of its sync-status rows.
CollectionTable ==
    [Event |-> "events", Team |-> "teams", Match |-> "lightmatches",
     MatchScouting |-> "matchscouting", FormLayout |-> "layout"]

StatusTable ==
    [Event |-> "none", Team |-> "none", Match |-> "lightmatches",
     MatchScouting |-> "orgs", FormLayout |-> "layout"]

\* The tables after the transaction of the download op has run alone on the
\* tables d at clock reading time.
Reconcile(op, d, time) ==
    transaction(d,
        CASE op.kind = "Event" -> EventBody(BeginTx({"events"}, d), op.got[1])
          [] op.kind = "Team" -> TeamBody(BeginTx(TeamScope, d), op.event_key, op.got)
          [] op.kind = "Match" ->
                MatchBody(BeginTx({"lightmatches", "syncstatus"}, d),
                          op.event_key, op.got, time)
          [] op.kind = "MatchScouting" ->
                MatchScoutingBody(BeginTx({"matchscouting", "syncstatus"}, d),
                                  op.event_key, op.org_key, op.got, time)
          [] op.kind = "FormLayout" ->
                FormLayoutBody(BeginTx({"layout", "syncstatus"}, d),
                               op.org_key, yearOf(op.event_key), op.got, op.got2, time)).db

\* The fetched documents are documents of the event, organisation and year
\* the download asked for.
FetchedInScope(op) ==
    CASE op.kind = "Event" -> \A r \in Rows(op.got) : r.key = op.event_key
      [] op.kind = "Match" -> \A r \in Rows(op.got) : r.event_key = op.event_key
      [] op.kind = "FormLayout" ->
            \A r \in Rows(op.got) \cup Rows(op.got2) :
                InLayoutScope(r, op.org_key, yearOf(op.event_key))
      [] OTHER -> TRUE

\* This step runs the transaction of the download op.
Commits(op) == Settles(op) /\ op.pc = "tx"

\* The rows of the tables d that are in the scope of the download op: those
\* of its event, or of its organisation and year.
ScopeRows(op, d) ==
    CASE op.kind = "Event" -> where(d.events, [key |-> op.event_key])
      [] op.kind = "Match" -> where(d.lightmatches, [event_key |-> op.event_key])
      [] op.kind = "FormLayout" ->
            {r \in d.layout : InLayoutScope(r, op.org_key, yearOf(op.event_key))}
      [] OTHER -> d[CollectionTable[op.kind]]

\* C13 as stated: when the transaction of a download has run, the rows of
\* its collection and scope are either as the downloads before it left them,
\* or are the complete result of this download alone on the tables it was
\* called on: never rows of both.
C13_OneOfThem ==
    [][\A op \in ops :
        (Commits(op) /\ FetchedInScope(op)) =>
            \/ ScopeRows(op, db') = ScopeRows(op, db)
            \/ ScopeRows(op, db') = ScopeRows(op, Reconcile(op, op.pre, now))]_vars

\* C13 amended: whatever the interleaving of the downloads, the tables change
\* only when a transaction runs, and then become what that transaction gives
\* when run alone on the tables the transactions before it left (the final
\* tables are those of the transactions run one after the other in the order
\* they ran); a transaction writes only the table of its collection and the
\* sync-status rows of its collection; a successful Event, Match or FormLayout
\* transaction leaves as rows of its scope exactly its own fetched documents,
\* while a successful MatchScouting transaction leaves its fetched documents
\* together with every row stored before, by another download too, whose key
\* it did not fetch.
C13_SerialInCommitOrder ==
    [][/\ (\A op \in ops : ~Commits(op)) => db' = db
       /\ \A op \in ops : Commits(op) =>
            LET t == CollectionTable[op.kind]
            IN  /\ db' = Reconcile(op, db, now)
                /\ \A u \in TableNames \ {t, "syncstatus"} : db'[u] = db[u]
                /\ {r \in db'.syncstatus : r.table # StatusTable[op.kind]}
                      = {r \in db.syncstatus : r.table # StatusTable[op.kind]}
                /\ (done'.err = "none" /\ FetchedInScope(op)) =>
                      CASE op.kind = "Event" ->
                              where(db'.events, [key |-> op.event_key]) = Rows(op.got)
                        [] op.kind = "Match" ->
                              where(db'.lightmatches, [event_key |-> op.event_key])
                                 = Rows(op.got)
                        [] op.kind = "FormLayout" ->
                              {r \in db'.layout :
                                  InLayoutScope(r, op.org_key, yearOf(op.event_key))}
                                 = Rows(op.got) \cup Rows(op.got2)
                        [] op.kind = "MatchScouting" ->
                              LET keys == {r.match_team_key : r \in Rows(op.got)}
                              IN  /\ \A i \in DOMAIN op.got :
                                        LastOfKey(op.got, i) => op.got[i] \in db'[t]
                                  /\ {r \in db'[t] : r.match_team_key \notin keys}
                                        = {r \in db[t] : r.match_team_key \notin keys}
                        [] OTHER -> TRUE]_vars

\* Two MatchScouting downloads overlapped and both succeeded; the one that
\* settled last was called first, and the table holds a row it did not fetch
\* that was not stored when it was called: a row of the other download.
C13_Witness ==
    /\ ops = {} /\ started = 2
    /\ done.id = 0 /\ done.kind = "MatchScouting" /\ done.err = "none"
    /\ done.got # <<>>
    /\ \E r \in db.matchscouting \ done.pre.matchscouting :
          \A g \in Rows(done.got) : g.match_team_key # r.match_team_key
    /\ Rows(done.got) \subseteq db.matchscouting

\* ---------------------------------------------------------------- C15, C16

\* The argument is the text of a whole number in digits alone.
IsLevelText(arg) == arg.t = "string" /\ arg.v # <<>> /\ IsDigits(arg.v)

\* req.authenticate has been called and has settled.
AuthenticateCalled == ret.kind \in {"resolved", "rejected"} /\ ret.call = "req.authenticate"

\* The URL authenticate redirects the request to when it denies access.
DeniedUrl ==
    IF req.user = Undefined THEN <<"/?redirectURL=">> \o req.originalUrl
    ELSE IF req.user.name = "default_user" /\ req.method = "GET"
         THEN <<"/user/login?redirectURL=">> \o req.originalUrl
         ELSE <<"/?alert=You are not authorized to access this page.&type=error">>

\* C15: req.authenticate(level), level being the text of a whole number,
\* resolves to true without any redirect exactly when the request has a user
\* whose access level is at least level; in every other case it resolves to
\* false after exactly one redirect: to the organisation selection with the
\* original URL when there is no user, to the login page with the original
\* URL when the user is default_user and the method is GET, and to the
\* not-authorized page otherwise.
C15_AccessByLevel ==
    (AuthenticateCalled /\ IsLevelText(ret.args[1])) =>
        LET level   == DigitsToInt(ret.args[1].v)
            granted == req.user # Undefined /\ req.user.role.access_level >= level
        IN  /\ ret.kind = "resolved"
            /\ ret.value = Bool(granted)
            /\ IF granted THEN res.redirected = <<>>
               ELSE /\ Len(res.redirected) = 1
                    /\ res.redirected[1].args = <<Str(DeniedUrl)>>

\* A user whose level equals the level required was granted access.
C15_Witness ==
    /\ AuthenticateCalled /\ IsLevelText(ret.args[1])
    /\ req.user # Undefined
    /\ req.user.role.access_level = DigitsToInt(ret.args[1].v)
    /\ req.user.role.access_level > 0
    /\ ret.value = Bool(TRUE) /\ res.redirected = <<>>

\* The text is a whole number: white space around an optional sign and digits.
IsIntegerText(arg) ==
    /\ arg.t = "string"
    /\ LET t    == trim(arg.v)
           body == IF t # <<>> /\ Head(t) \in {"+", "-"} THEN Tail(t) ELSE t
       IN  body # <<>> /\ IsDigits(body)

\* The text starts, after white space and an optional sign, with a digit.
StartsWithInteger(arg) ==
    /\ arg.t = "string"
    /\ LET t    == trimStart(arg.v)
           body == IF t # <<>> /\ Head(t) \in {"+", "-"} THEN Tail(t) ELSE t
       IN  body # <<>> /\ Head(body) \in DOMAIN DigitValue

\* C16 as stated: req.authenticate called with an argument that is not a
\* whole number rejects, whoever the user is, with no redirect.
C16_RejectsEveryNonInteger ==
    (AuthenticateCalled /\ ~IsIntegerText(ret.args[1])) =>
        (ret.kind = "rejected" /\ res.redirected = <<>>)

\* C16 amended: req.authenticate rejects, with no redirect and no access
\* granted, whoever the user is, exactly when its argument is undefined or a
\* text that does not start (after white space and a sign) with a digit; a
\* text that starts with digits and goes on with other characters ("1x",
\* "3.") is taken as the number of its leading digits.
C16_RejectsIffNoLeadingInteger ==
    AuthenticateCalled =>
        IF StartsWithInteger(ret.args[1])
        THEN /\ ret.kind = "resolved"
             /\ LET t     == trimStart(ret.args[1].v)
                    neg   == Head(t) = "-"
                    body  == IF Head(t) \in {"+", "-"} THEN Tail(t) ELSE t
                    n     == DigitsToInt(SubSeq(body, 1, LeadingDigits(body)))
                    level == IF neg THEN 0 - n ELSE n
                IN  ret.value = Bool(req.user # Undefined
                                        /\ req.user.role.access_level >= level)
        ELSE /\ ret.kind = "rejected"
             /\ ret.value = Error("req.authenticate: Access level is not a number")
             /\ res.redirected = <<>>

\* req.authenticate rejected for a signed-in user of the highest level.
C16_Witness ==
    /\ AuthenticateCalled /\ ret.kind = "rejected"
    /\ req.user # Undefined /\ req.user.role.access_level = MaxLevel
    /\ ret.args[1] # Undefined
    /\ res.redirected = <<>>

\* ---------------------------------------------------------------- C19

\* This step is a call of res.render or res.redirect.
RenderOrRedirect ==
    /\ <<res.rendered, res.redirected>>' # <<res.rendered, res.redirected>>
    /\ ret'.call \in {"res.render", "res.redirect"}

\* C19: once renderLogger has run, every call of res.render or res.redirect
\* applies the function that was there before exactly once, to the receiver
\* and the arguments of the call, and returns what that function returned;
\* besides that it logs one line and changes nothing else of the response.
C19_TransparentWrapper ==
    [][(RenderOrRedirect /\ res.render = "logged" /\ res.redirect = "logged") =>
        LET op    == IF ret'.call = "res.render" THEN "rendered" ELSE "redirected"
            other == IF ret'.call = "res.render" THEN "redirected" ELSE "rendered"
            last  == res'[op][Len(res'[op])]
        IN  /\ Len(res'[op]) = Len(res[op]) + 1
            /\ SubSeq(res'[op], 1, Len(res[op])) = res[op]
            /\ last.this = ret'.this
            /\ last.args = ret'.args
            /\ ret'.kind = "returned"
            /\ ret'.value = last.returned
            /\ res'[other] = res[other]
            /\ res'.statusCode = res.statusCode
            /\ res'.locals = res.locals
            /\ res'.render = res.render /\ res'.redirect = res.redirect
            /\ Len(console') = Len(console) + 1
            /\ req' = req]_vars

\* The wrapped res.redirect was called on another receiver with two
\* arguments and returned the value the function before it returned.
C19_Witness ==
    /\ res.redirect = "logged"
    /\ ret.kind = "returned" /\ ret.call = "res.redirect"
    /\ ret.this = "other" /\ Len(ret.args) = 2
    /\ ret.value = Str(<<"html">>)
    /\ Len(res.redirected) = 1
    /\ res.redirected[1] = [this |-> "other", args |-> ret.args, returned |-> ret.value]
    /\ Len(console) = 1

\* ---------------------------------------------------------------- C20

\* C20: the not-found handler passes on an error of status 404, which the
\* error handler receives; for every error it receives, the error handler
\* sets the response status to the status of the error, or to 500 when the
\* error has none, renders the view "error" exactly once, and gives the view
\* the error itself in the development environment and an empty object in
\* every other.
C20_ErrorPage ==
    /\ (ret.kind # "none" /\ ret.call = "notFoundHandler") =>
          (ret.kind = "next" /\ ret.value.t = "error" /\ ret.value.status = 404)
    /\ (ret.kind # "none" /\ ret.call = "errorHandler") =>
          LET err == ret.args[1]
          IN  /\ res.statusCode = IF "status" \in DOMAIN err THEN err.status ELSE 500
              /\ Len(res.rendered) = 1
              /\ res.rendered[1].this = "res"
              /\ res.rendered[1].args = <<Str(<<"error">>)>>
              /\ res.redirected = <<>>
              /\ res.locals.message = err.message
              /\ res.locals.error = IF req.app.env = "development" THEN err ELSE EmptyObject

\* The 404 of an unmatched route was rendered in production with no detail.
C20_Witness ==
    /\ ret.kind = "returned" /\ ret.call = "errorHandler"
    /\ ret.args[1].message = "Not Found"
    /\ res.statusCode = 404
    /\ req.app.env = "production"
    /\ res.locals.error = EmptyObject
    /\ Len(res.rendered) = 1

\* ---------------------------------------------------------------- C17

\* The values that say "no event" or "no year".
Sentinels ==
    {Str(<<"No event defined">>), Str(<<"No year defined">>), Str(<<"undefined">>)}

\* The response local is not set or holds a sentinel.
LocalIsSentinel(name) == name \in DOMAIN res.locals => res.locals[name] \in Sentinels

\* C17: whatever the lookups of getEventInfo give, it calls next once with no
\* error, and the context fields of what was not resolved hold a sentinel:
\* the event name when no event was found, the event key when no
\* organisation with a current event was found, the year when that key gives
\* no year.
C17_Sentinels ==
    (ret.kind # "none" /\ ret.call = "getEventInfo") =>
        LET org     == ret.found.org
            noKey   == org \in {Undefined, Null} \/ org.event_key = Undefined
            noYear  == noKey \/ ~StartsWithInteger(org.event_key)
            noEvent == ret.found.event = Null
        IN  /\ ret.kind = "next" /\ ret.value = Undefined
            /\ noEvent => /\ res.locals.eventName = Str(<<"No event defined">>)
                          /\ req.event.name \in Sentinels
            /\ noKey => (req.event.key \in Sentinels /\ LocalIsSentinel("event_key"))
            /\ noYear => (req.event.year \in Sentinels /\ LocalIsSentinel("event_year"))

\* ---------------------------------------------------------------- C18

\* C18: the time the request logger writes is YYYY-MM-DD-HH:MM:SS: nineteen
\* characters, digits but for the dashes after year, month and day and the
\* colons after hours and minutes.
C18_FixedFormat ==
    (ret.kind # "none" /\ ret.call = "requestLogger") =>
        LET line == console[Len(console)]
            time == line[Len(line)]
        IN  /\ Len(time) = 19
            /\ \A i \in {5, 8, 11} : time[i] = "-"
            /\ \A i \in {14, 17} : time[i] = ":"
            /\ \A i \in (1..19) \ {5, 8, 11, 14, 17} : time[i] \in DOMAIN DigitValue

\* ---------------------------------------------------------------- C21

\* The elements of the class that show() of cards[i] has put in the document
\* and that are still there.
InDocument(i, class) ==
    {k \in DOMAIN document.children :
        document.children[k].of = i /\ document.children[k].class = class}

\* cards[i] has been shown and none of its card elements is in the document.
Removed(i) == ~Falsy(cards[i].card) /\ InDocument(i, "notification-card") = {}

\* C21: once a card shown with darken: true has been removed, by the expiry
\* of its ttl, by a call of remove() or by its exit button, its darkening
\* overlay is not in the document.
C21_OverlayGone ==
    \A i \in DOMAIN cards :
        (cards[i].opts.darken.v /\ Removed(i)) => InDocument(i, "theme-darkener") = {}

\* ---------------------------------------------------------------- C22

\* C22: when the transaction of a MatchScouting download runs with a fetched
\* record whose match+team key is that of a stored row holding data that was
\* entered on the device and not submitted, the download resolves with no
\* error, the stored row of that key is then the fetched record (the last one
\* of the list with that key) and the data entered on the device is gone
\* from it.
C22_LocalEditOverwritten ==
    [][\A op \in ops :
        (Settles(op) /\ op.kind = "MatchScouting" /\ op.pc = "tx") =>
            \A o \in LocallyModified(db.matchscouting), i \in DOMAIN op.got :
                (op.got[i].match_team_key = o.match_team_key /\ LastOfKey(op.got, i)) =>
                    /\ done'.err = "none"
                    /\ op.got[i] \in db'.matchscouting
                    /\ \A n \in db'.matchscouting :
                          n.match_team_key = o.match_team_key =>
                              n = op.got[i] /\ n \notin LocallyModified({n})]_vars

\* A MatchScouting download has resolved with no error, the row of a key held
\* data entered on the device when it was called, and the row now holds a
\* record of the server.
C22_Witness ==
    /\ done.kind = "MatchScouting" /\ done.err = "none"
    /\ \E o \in LocallyModified(done.pre.matchscouting), n \in db.matchscouting :
          /\ n.match_team_key = o.match_team_key
          /\ n \in MatchScoutings

====
